---- MODULE Spec2Model ----
(***************************************************************************)
(* SanctifyLive: the flat JSON content repositories (songs, themes,       *)
(* presentations, media), the Songs tab that keeps its own song list, the  *)
(* SettingsManager with its settings file, two processes on one songs     *)
(* file, and the LiveOutput widget.                                        *)
(*                                                                         *)
(* Python values are records tagged with their Python type ("ty"); JSON   *)
(* values are records tagged with their JSON type ("jt").  A str is a     *)
(* sequence of one-character strings, so that lower() and strip() are     *)
(* computed character by character.                                        *)
(***************************************************************************)
EXTENDS Integers, Sequences, FiniteSets, TLC

VARIABLES
    focus,          \* the repository a run exercises
    diskOk,         \* FALSE when the data directory refuses writes
    nextUuid,       \* how many uuid4 identifiers have been handed out, plus one
    songs,          \* SongModel.songs
    songFile,       \* contents of paths.songs (a JSON array)
    themes,         \* ThemeModel.themes
    themeFile,      \* contents of paths.themes
    uiThemes,       \* themes of the ThemeModel of ui/themes_ui.py
    presentations,  \* PresentationModel.presentations
    presentationFile,   \* contents of paths.presentations
    attached,       \* PresentationModel.theme_model / media_model are set
    deletedThemes,  \* history: the ids delete_theme has removed
    media,          \* MediaModel.media
    mediaFile,      \* contents of paths.media_metadata
    mediaDisk,      \* the files under the media directory, by relative path
    mediaDirAbs,    \* paths.media is an absolute path
    tabSongs,       \* SongsTab.songs
    tabFile,        \* contents of SONGS_FILE as the Songs tab writes it
    tabRow,         \* SongsTab.song_list.currentRow(), from 1; 0 is no item
    hymns,          \* contents of HYMNS_JSON
    search_input,   \* SongsTab.search_input.text()
    tag_filter,     \* SongsTab.tag_filter.currentText()
    search_results, \* SongsTab.search_results, the indices counted from 1
    settings,       \* SettingsManager.settings
    default_settings,   \* SettingsManager.default_settings
    sharedSections, \* the sections settings shares with default_settings
    settingsFile,   \* contents of the settings file
    restart_required,   \* SettingsManager.restart_required
    exported,       \* contents of the file export_settings writes
    path_validity,  \* history: what the last validate_paths returned or raised
    otherSongs,     \* SongModel.songs of a second process on the same file
    lastSaver,      \* history: the process whose save wrote songFile; 0 is none
    content_label,  \* LiveOutput.content_label.text()
    media_player,   \* the file LiveOutput.media_player shows; None without one
    current_content,    \* LiveOutput.current_content
    current_type,   \* LiveOutput.current_type
    zoom_level,     \* LiveOutput.zoom_level, in tenths
    blanked,        \* history: set_blank was the last call that set content
    preview_zoom_level, \* PreviewCanvas.zoom_level, in tenths
    preview_type,   \* PreviewCanvas.current_type; "unset" before set_content
    preview_player  \* PreviewCanvas.media_player; None without one

songVars == <<songs, songFile>>
themeVars == <<themes, themeFile, deletedThemes>>
presentationVars == <<presentations, presentationFile, attached>>

mediaVars == <<media, mediaFile, mediaDisk, mediaDirAbs>>

tabVars == <<tabSongs, tabFile, tabRow, hymns>>

settingsVars ==
    <<settings, default_settings, sharedSections, settingsFile, restart_required,
      exported, path_validity>>

\* what the repositories and the Songs tab leave alone
pairVars == <<otherSongs, lastSaver>>

liveVars ==
    <<content_label, media_player, current_content, current_type, zoom_level,
      blanked>>

previewVars == <<preview_zoom_level, preview_type, preview_player>>

searchVars == <<search_input, tag_filter, search_results>>

uiVars == <<uiThemes>>

extVars == <<settingsVars, pairVars, liveVars, previewVars, searchVars, uiVars>>

vars ==
    <<focus, diskOk, nextUuid, songVars, themeVars, presentationVars, mediaVars,
      tabVars, extVars>>

-----------------------------------------------------------------------------
(* Bounds *)

MaxSongs == 2
MaxThemes == 2
MaxPresentations == 2
MaxUuids == 3
MaxMedia == 2
MaxTabSongs == 2
MaxTitleLen == 8

-----------------------------------------------------------------------------
(* str methods *)

LowerChar(c) ==
    CASE c = "A" -> "a"
      [] c = "C" -> "c"
      [] c = "F" -> "f"
      [] c = "G" -> "g"
      [] c = "I" -> "i"
      [] c = "J" -> "j"
      [] c = "P" -> "p"
      [] c = "T" -> "t"
      [] OTHER -> c

Lower(s) == [i \in 1..Len(s) |-> LowerChar(s[i])]

RECURSIVE LStrip(_)
LStrip(s) ==
    IF s = <<>> THEN <<>>
    ELSE IF Head(s) = " " THEN LStrip(Tail(s)) ELSE s

RECURSIVE RStrip(_)
RStrip(s) ==
    IF s = <<>> THEN <<>>
    ELSE IF s[Len(s)] = " " THEN RStrip(SubSeq(s, 1, Len(s) - 1)) ELSE s

Strip(s) == RStrip(LStrip(s))

CopySuffix == <<" ", "(", "C", "o", "p", "y", ")">>

-----------------------------------------------------------------------------
(* list methods *)

\* the first element removed whatever x is
RemoveFirst_Head(list, x) == IF list = <<>> THEN <<>> ELSE Tail(list)

\* list.remove(x): the first element equal to x is removed
RemoveFirst(list, x) ==
    LET hits == {i \in 1..Len(list) : list[i] = x}
        k == CHOOSE i \in hits : \A h \in hits : i <= h
    IN IF hits = {} THEN list
       ELSE SubSeq(list, 1, k - 1) \o SubSeq(list, k + 1, Len(list))

-----------------------------------------------------------------------------
(* Python values and their JSON encoding (json.dump / json.load) *)

Absent == [ty |-> "absent", s |-> <<>>, n |-> 0]
PyNone == [ty |-> "NoneType", s |-> <<>>, n |-> 0]
PyStr(s) == [ty |-> "str", s |-> s, n |-> 0]
PyInt(n) == [ty |-> "int", s |-> <<>>, n |-> n]
PyBool(b) == [ty |-> "bool", s |-> <<>>, n |-> IF b THEN 1 ELSE 0]

\* a sections value: a list of sections, each a list or a tuple of strs
SectionList(items) == [ty |-> "list", items |-> items]
NoSections == [ty |-> "absent", items |-> <<>>]
Section(ty, elems) == [ty |-> ty, elems |-> elems]

\* datetime.now().isoformat() at clock reading t
Isoformat(t) == PyStr(<<ToString(t)>>)

JsonType(ty) ==
    CASE ty = "str" -> "string"
      [] ty = "int" -> "number"
      [] ty = "float" -> "real"
      [] ty = "bool" -> "boolean"
      [] ty = "NoneType" -> "null"
      [] ty = "list" -> "array"
      [] ty = "tuple" -> "array"
      [] OTHER -> "absent"

PyType(jt) ==
    CASE jt = "string" -> "str"
      [] jt = "number" -> "int"
      [] jt = "real" -> "float"
      [] jt = "boolean" -> "bool"
      [] jt = "null" -> "NoneType"
      [] jt = "array" -> "list"
      [] OTHER -> "absent"

ToJson(v) == [jt |-> JsonType(v.ty), s |-> v.s, n |-> v.n]
FromJson(j) == [ty |-> PyType(j.jt), s |-> j.s, n |-> j.n]

SectionsToJson(v) ==
    [jt |-> JsonType(v.ty),
     items |-> [i \in 1..Len(v.items) |->
                   [jt |-> JsonType(v.items[i].ty), elems |-> v.items[i].elems]]]

SectionsFromJson(j) ==
    [ty |-> PyType(j.jt),
     items |-> [i \in 1..Len(j.items) |->
                   [ty |-> PyType(j.items[i].jt), elems |-> j.items[i].elems]]]

SongFields == {"title", "sections", "tags", "key", "created_at", "updated_at"}

SongsDump(list) ==
    [i \in 1..Len(list) |->
        [f \in SongFields |-> IF f = "sections" THEN SectionsToJson(list[i][f])
                              ELSE ToJson(list[i][f])]]

SongsParse(array) ==
    [i \in 1..Len(array) |->
        [f \in SongFields |-> IF f = "sections" THEN SectionsFromJson(array[i][f])
                              ELSE FromJson(array[i][f])]]

-----------------------------------------------------------------------------
(* SongModel *)

Result(list, file, code) == [list |-> list, file |-> file, code |-> code]

\* the records of the list written behind the ones the file already holds
SongModel_save_songs_Merge(list, file, io, code) ==
    IF io THEN Result(list, file \o SongsDump(list), code)
    ELSE Result(list, file, "SAVE_001")

\* _save_songs: the whole list is dumped; io = FALSE is an OSError on open()
SongModel_save_songs(list, file, io, code) ==
    IF io THEN Result(list, SongsDump(list), code)
    ELSE Result(list, file, "SAVE_001")

SongModel_validate_song(song) ==
    /\ song.title.ty = "str" /\ Strip(song.title.s) # <<>>
    /\ song.sections.ty = "list"
    /\ \A i \in 1..Len(song.sections.items) :
           /\ song.sections.items[i].ty = "list"
           /\ Len(song.sections.items[i].elems) = 2
    /\ song.tags.ty = "str"
    /\ song.created_at.ty = "str"
    /\ song.updated_at.ty = "str"

\* _load_songs on an existing file holding a JSON array of objects
SongModel_load_songs(file) ==
    SelectSeq(SongsParse(file), SongModel_validate_song)

\* isinstance(element, dict) of an element json.load returns
IsObject(element) == "jt" \notin DOMAIN element

\* the loop of _load_songs and _load_themes over the loaded array: a valid
\* element is appended; for an invalid one the warning calls element.get,
\* which raises AttributeError unless the element is a dict.  ObjectPrefix
\* is the part of the array the loop gets through
ObjectPrefix(array) ==
    LET others == {i \in 1..Len(array) : ~IsObject(array[i])}
        stop == IF others = {} THEN Len(array) + 1
                ELSE CHOOSE i \in others : \A k \in others : i <= k
    IN SubSeq(array, 1, stop - 1)

\* the except clause turns the AttributeError into LOAD_003
LoadCode(array) ==
    IF \A i \in 1..Len(array) : IsObject(array[i]) THEN "OK" ELSE "LOAD_003"

\* _load_songs on an existing file holding a JSON array of any elements
SongModel_load_songs_file(array) ==
    [list |-> SelectSeq(SongsParse(ObjectPrefix(array)), SongModel_validate_song),
     code |-> LoadCode(array)]

\* the titles compared as they are, without lower()
SongTitleTaken_CaseSensitive(list, title) ==
    \E i \in 1..Len(list) : list[i].title.s = title

\* any(song["title"].lower() == title.lower() for song in list)
SongTitleTaken(list, title) ==
    \E i \in 1..Len(list) : Lower(list[i].title.s) = Lower(title)

SongModel_get_song_by_title(list, title) ==
    LET hits == {i \in 1..Len(list) : Lower(list[i].title.s) = Lower(title)}
    IN IF hits = {} THEN 0 ELSE CHOOSE i \in hits : \A k \in hits : i <= k

\* the record add_song validates: song_data with stamps and defaults; "key"
\* stands for the keys of song_data that _validate_song does not look at
SongModel_add_candidate(song_data, now) ==
    [title |-> song_data.title,
     key |-> song_data.key,
     sections |-> IF song_data.sections.ty = "absent"
                  THEN SectionList(<<>>) ELSE song_data.sections,
     tags |-> IF song_data.tags.ty = "absent"
              THEN PyStr(<<>>) ELSE song_data.tags,
     created_at |-> Isoformat(now),
     updated_at |-> Isoformat(now)]

\* add_song without the _validate_song step
SongModel_add_song_Unvalidated(list, file, song_data, now, io) ==
    IF song_data.title.ty \notin {"str", "absent"}
    THEN Result(list, file, "ADD_004")
    ELSE IF Strip(song_data.title.s) = <<>>
    THEN Result(list, file, "ADD_001")
    ELSE IF SongTitleTaken(list, song_data.title.s)
    THEN Result(list, file, "ADD_002")
    ELSE SongModel_save_songs(Append(list, SongModel_add_candidate(song_data, now)),
                              file, io, "OK")

SongModel_add_song(list, file, song_data, now, io) ==
    IF song_data.title.ty \notin {"str", "absent"}
    THEN Result(list, file, "ADD_004")
    ELSE IF Strip(song_data.title.s) = <<>>
    THEN Result(list, file, "ADD_001")
    ELSE IF SongTitleTaken(list, song_data.title.s)
    THEN Result(list, file, "ADD_002")
    ELSE
      LET new_song == SongModel_add_candidate(song_data, now)
      IN IF ~SongModel_validate_song(new_song)
         THEN Result(list, file, "ADD_003")
         ELSE SongModel_save_songs(Append(list, new_song), file, io, "OK")

\* the record update_song validates: song_data over the stored song
SongModel_update_candidate(song, song_data, now) ==
    [title |-> song_data.title,
     key |-> song_data.key,
     sections |-> IF song_data.sections.ty = "absent"
                  THEN song.sections ELSE song_data.sections,
     tags |-> IF song_data.tags.ty = "absent"
              THEN song.tags ELSE song_data.tags,
     created_at |-> song.created_at,
     updated_at |-> Isoformat(now)]

SongModel_update_song(list, file, old_title, song_data, now, io) ==
    LET k == SongModel_get_song_by_title(list, old_title) IN
    IF k = 0
    THEN Result(list, file, "UPDATE_001")
    ELSE IF song_data.title.ty \notin {"str", "absent"}
    THEN Result(list, file, "UPDATE_004")
    ELSE IF /\ Strip(song_data.title.s) # <<>>
            /\ Lower(song_data.title.s) # Lower(old_title)
            /\ SongTitleTaken(
                   SelectSeq(list, LAMBDA s : Lower(s.title.s) # Lower(old_title)),
                   song_data.title.s)
    THEN Result(list, file, "UPDATE_002")
    ELSE
      LET song == list[k]
          new_song == SongModel_update_candidate(song, song_data, now)
      IN IF ~SongModel_validate_song(new_song)
         THEN Result(list, file, "UPDATE_003")
         ELSE SongModel_save_songs(Append(RemoveFirst(list, song), new_song),
                                   file, io, "OK")

SongModel_delete_song(list, file, title, io) ==
    LET k == SongModel_get_song_by_title(list, title) IN
    IF k = 0
    THEN Result(list, file, "DELETE_001")
    ELSE SongModel_save_songs(RemoveFirst(list, list[k]), file, io, "OK")

SongModel_duplicate_song(list, file, title, now, io) ==
    LET k == SongModel_get_song_by_title(list, title) IN
    IF k = 0
    THEN Result(list, file, "DUPLICATE_001")
    ELSE
      LET song == list[k]
          new_title == song.title.s \o CopySuffix
      IN IF SongTitleTaken(list, new_title)
         THEN Result(list, file, "DUPLICATE_002")
         ELSE SongModel_save_songs(
                  Append(list, [song EXCEPT !.title = PyStr(new_title),
                                            !.created_at = Isoformat(now),
                                            !.updated_at = Isoformat(now)]),
                  file, io, "OK")

-----------------------------------------------------------------------------
(* ThemeModel *)

ThemeFields ==
    {"id", "name", "context", "alignment", "font_color", "background_color",
     "font_size", "font_family", "tags", "created_at", "updated_at"}

\* str(uuid.uuid4()): the k-th identifier handed out
Uuid(k) == PyStr(<<ToString(k)>>)

ThemesDump(list) ==
    [i \in 1..Len(list) |-> [f \in ThemeFields |-> ToJson(list[i][f])]]

ThemesParse(array) ==
    [i \in 1..Len(array) |-> [f \in ThemeFields |-> FromJson(array[i][f])]]

\* _save_themes: the whole list is dumped; io = FALSE is an OSError on open()
ThemeModel_save_themes(list, file, io, code) ==
    IF io THEN Result(list, ThemesDump(list), code)
    ELSE Result(list, file, "SAVE_001")

ThemeModel_validate_theme(theme) ==
    /\ theme.id.ty = "str"
    /\ theme.name.ty = "str" /\ Strip(theme.name.s) # <<>>
    /\ theme.context \in {PyStr(<<"Songs">>), PyStr(<<"Scriptures">>),
                          PyStr(<<"Presentations">>)}
    /\ theme.alignment \in {PyStr(<<"Left">>), PyStr(<<"Centered">>),
                            PyStr(<<"Right">>)}
    /\ theme.font_color.ty = "str"
    /\ theme.font_color.s # <<>> /\ Head(theme.font_color.s) = "#"
    /\ theme.background_color.ty = "str"
    /\ theme.background_color.s # <<>> /\ Head(theme.background_color.s) = "#"
    /\ theme.font_size.ty \in {"int", "bool"} /\ theme.font_size.n > 0
    /\ theme.font_family.ty = "str" /\ Strip(theme.font_family.s) # <<>>
    /\ theme.tags.ty = "str"
    /\ theme.created_at.ty = "str"
    /\ theme.updated_at.ty = "str"

\* _load_themes on an existing file holding a JSON array of objects
ThemeModel_load_themes(file) ==
    SelectSeq(ThemesParse(file), ThemeModel_validate_theme)

\* _load_themes on an existing file holding a JSON array of any elements
ThemeModel_load_themes_file(array) ==
    [list |-> SelectSeq(ThemesParse(ObjectPrefix(array)), ThemeModel_validate_theme),
     code |-> LoadCode(array)]

\* the names compared as they are, without lower()
NameTaken_CaseSensitive(list, name) ==
    \E i \in 1..Len(list) : list[i].name.s = name

\* any(t["name"].lower() == name.lower() for t in list)
NameTaken(list, name) ==
    \E i \in 1..Len(list) : Lower(list[i].name.s) = Lower(name)

\* get_theme_by_id, get_presentation_by_id: the first record with the id
GetById(list, id) ==
    LET hits == {i \in 1..Len(list) : list[i].id = id}
    IN IF hits = {} THEN 0 ELSE CHOOSE i \in hits : \A k \in hits : i <= k

\* the record create_theme validates
ThemeModel_create_candidate(a, uuid, now) ==
    [id |-> Uuid(uuid),
     name |-> a.name,
     context |-> a.context,
     alignment |-> a.alignment,
     font_color |-> a.font_color,
     background_color |-> a.background_color,
     font_size |-> a.font_size,
     font_family |-> a.font_family,
     tags |-> PyStr(Strip(a.tags.s)),
     created_at |-> Isoformat(now),
     updated_at |-> Isoformat(now)]

ThemeModel_create_theme(list, file, a, uuid, now, io) ==
    IF a.name.ty # "str"
    THEN Result(list, file, "CREATE_004")
    ELSE IF Strip(a.name.s) = <<>>
    THEN Result(list, file, "CREATE_001")
    ELSE IF NameTaken(list, a.name.s)
    THEN Result(list, file, "CREATE_002")
    ELSE IF a.tags.ty # "str"
    THEN Result(list, file, "CREATE_004")
    ELSE
      LET theme == ThemeModel_create_candidate(a, uuid, now)
      IN IF ~ThemeModel_validate_theme(theme)
         THEN Result(list, file, "CREATE_003")
         ELSE ThemeModel_save_themes(Append(list, theme), file, io, "OK")

\* the record update_theme and update_presentation validate: the stored
\* record overlaid with updated_data, its id and created_at kept
UpdateCandidate(record, updated_data, now) ==
    [f \in DOMAIN record |->
        IF f \in {"id", "created_at"} THEN record[f]
        ELSE IF f = "updated_at" THEN Isoformat(now)
        ELSE IF updated_data[f].ty = "absent" THEN record[f]
        ELSE updated_data[f]]

\* the updated theme written over the stored one, at the place it had
ThemeModel_update_theme_InPlace(list, file, theme_id, updated_data, now, io) ==
    LET k == GetById(list, theme_id) IN
    IF k = 0
    THEN Result(list, file, "UPDATE_001")
    ELSE IF updated_data.name.ty \notin {"str", "absent"}
    THEN Result(list, file, "UPDATE_004")
    ELSE IF /\ Strip(updated_data.name.s) # <<>>
            /\ Lower(updated_data.name.s) # Lower(list[k].name.s)
            /\ NameTaken(SelectSeq(list, LAMBDA t : t.id # theme_id),
                         updated_data.name.s)
    THEN Result(list, file, "UPDATE_002")
    ELSE
      LET updated_theme == UpdateCandidate(list[k], updated_data, now)
      IN IF ~ThemeModel_validate_theme(updated_theme)
         THEN Result(list, file, "UPDATE_003")
         ELSE ThemeModel_save_themes([list EXCEPT ![k] = updated_theme],
                                     file, io, "OK")

ThemeModel_update_theme(list, file, theme_id, updated_data, now, io) ==
    LET k == GetById(list, theme_id) IN
    IF k = 0
    THEN Result(list, file, "UPDATE_001")
    ELSE IF updated_data.name.ty \notin {"str", "absent"}
    THEN Result(list, file, "UPDATE_004")
    ELSE IF /\ Strip(updated_data.name.s) # <<>>
            /\ Lower(updated_data.name.s) # Lower(list[k].name.s)
            /\ NameTaken(SelectSeq(list, LAMBDA t : t.id # theme_id),
                         updated_data.name.s)
    THEN Result(list, file, "UPDATE_002")
    ELSE
      LET theme == list[k]
          updated_theme == UpdateCandidate(theme, updated_data, now)
      IN IF ~ThemeModel_validate_theme(updated_theme)
         THEN Result(list, file, "UPDATE_003")
         ELSE ThemeModel_save_themes(Append(RemoveFirst(list, theme), updated_theme),
                                     file, io, "OK")

ThemeModel_delete_theme(list, file, theme_id, io) ==
    LET k == GetById(list, theme_id) IN
    IF k = 0
    THEN Result(list, file, "DELETE_001")
    ELSE ThemeModel_save_themes(RemoveFirst(list, list[k]), file, io, "OK")

ThemeModel_duplicate_theme(list, file, theme_id, uuid, now, io) ==
    LET k == GetById(list, theme_id) IN
    IF k = 0
    THEN Result(list, file, "DUPLICATE_001")
    ELSE
      LET theme == list[k]
          new_theme == [theme EXCEPT !.id = Uuid(uuid),
                                     !.name = PyStr(theme.name.s \o CopySuffix),
                                     !.created_at = Isoformat(now),
                                     !.updated_at = Isoformat(now)]
      IN IF NameTaken(list, new_theme.name.s)
         THEN Result(list, file, "DUPLICATE_002")
         ELSE ThemeModel_save_themes(Append(list, new_theme), file, io, "OK")

-----------------------------------------------------------------------------
(* PresentationModel *)

\* os.path.basename: what follows the last "/"
RECURSIVE Basename(_)
Basename(path) ==
    IF \E i \in 1..Len(path) : path[i] = "/"
    THEN Basename(Tail(path))
    ELSE path

\* os.path.splitext(...)[0]: the last "." and what follows it are cut off,
\* unless that "." is the first character
SplitextRoot(name) ==
    LET dots == {i \in 2..Len(name) : name[i] = "."}
    IN IF dots = {} THEN name
       ELSE SubSeq(name, 1, (CHOOSE i \in dots : \A k \in dots : k <= i) - 1)

PresentationFields ==
    {"id", "name", "theme", "slides", "tags", "created_at", "updated_at"}

PresentationsDump(list) ==
    [i \in 1..Len(list) |->
        [f \in PresentationFields |->
            IF f = "slides" THEN SectionsToJson(list[i][f]) ELSE ToJson(list[i][f])]]

PresentationsParse(array) ==
    [i \in 1..Len(array) |->
        [f \in PresentationFields |->
            IF f = "slides" THEN SectionsFromJson(array[i][f])
            ELSE FromJson(array[i][f])]]

\* _save_presentations; io = FALSE is an OSError on open()
PresentationModel_save_presentations(list, file, io, code) ==
    IF io THEN Result(list, PresentationsDump(list), code)
    ELSE Result(list, file, "SAVE_001")

\* the field checks alone, the theme and the media not looked up
PresentationModel_validate_presentation_FieldsOnly(p, env) ==
    /\ p.id.ty = "str"
    /\ p.name.ty = "str" /\ Strip(p.name.s) # <<>>
    /\ p.slides.ty = "list"
    /\ \A i \in 1..Len(p.slides.items) :
           /\ p.slides.items[i].ty = "list"
           /\ Len(p.slides.items[i].elems) = 2
           /\ p.slides.items[i].elems[1] \in {"Text", "Image", "Video"}
    /\ p.theme.ty = "str"
    /\ p.tags.ty = "str"
    /\ p.created_at.ty = "str"
    /\ p.updated_at.ty = "str"

\* env: [theme_model, themes, media_model, files], the models the
\* PresentationModel was constructed with and what they hold
PresentationModel_validate_presentation(p, env) ==
    /\ p.id.ty = "str"
    /\ p.name.ty = "str" /\ Strip(p.name.s) # <<>>
    /\ p.slides.ty = "list"
    /\ \A i \in 1..Len(p.slides.items) :
           /\ p.slides.items[i].ty = "list"
           /\ Len(p.slides.items[i].elems) = 2
           /\ p.slides.items[i].elems[1] \in {"Text", "Image", "Video"}
    /\ p.theme.ty = "str"
    /\ p.tags.ty = "str"
    /\ p.created_at.ty = "str"
    /\ p.updated_at.ty = "str"
    /\ env.media_model =>
           \A i \in 1..Len(p.slides.items) :
               p.slides.items[i].elems[1] \in {"Image", "Video"} =>
                   p.slides.items[i].elems[2] \in env.files
    /\ env.theme_model => GetById(env.themes, p.theme) # 0

PresentationModel_load_presentations(file, env) ==
    SelectSeq(PresentationsParse(file),
              LAMBDA p : PresentationModel_validate_presentation(p, env))

\* the record create_presentation validates
PresentationModel_create_candidate(a, uuid, now) ==
    [id |-> Uuid(uuid),
     name |-> a.name,
     theme |-> a.theme,
     slides |-> IF a.slides.ty = "absent" THEN SectionList(<<>>) ELSE a.slides,
     tags |-> PyStr(Strip(a.tags.s)),
     created_at |-> Isoformat(now),
     updated_at |-> Isoformat(now)]

PresentationModel_create_presentation(list, file, a, env, uuid, now, io) ==
    IF a.name.ty # "str"
    THEN Result(list, file, "CREATE_004")
    ELSE IF Strip(a.name.s) = <<>>
    THEN Result(list, file, "CREATE_001")
    ELSE IF NameTaken(list, a.name.s)
    THEN Result(list, file, "CREATE_002")
    ELSE IF a.tags.ty # "str"
    THEN Result(list, file, "CREATE_004")
    ELSE
      LET presentation == PresentationModel_create_candidate(a, uuid, now)
      IN IF ~PresentationModel_validate_presentation(presentation, env)
         THEN Result(list, file, "CREATE_003")
         ELSE PresentationModel_save_presentations(Append(list, presentation),
                                                   file, io, "OK")

PresentationModel_update_presentation(list, file, presentation_id, updated_data, env, now, io) ==
    LET k == GetById(list, presentation_id) IN
    IF k = 0
    THEN Result(list, file, "UPDATE_001")
    ELSE IF updated_data.name.ty \notin {"str", "absent"}
    THEN Result(list, file, "UPDATE_004")
    ELSE IF /\ Strip(updated_data.name.s) # <<>>
            /\ Lower(updated_data.name.s) # Lower(list[k].name.s)
            /\ NameTaken(SelectSeq(list, LAMBDA q : q.id # presentation_id),
                         updated_data.name.s)
    THEN Result(list, file, "UPDATE_002")
    ELSE
      LET presentation == list[k]
          updated_presentation == UpdateCandidate(presentation, updated_data, now)
      IN IF ~PresentationModel_validate_presentation(updated_presentation, env)
         THEN Result(list, file, "UPDATE_003")
         ELSE PresentationModel_save_presentations(
                  Append(RemoveFirst(list, presentation), updated_presentation),
                  file, io, "OK")

PresentationModel_delete_presentation(list, file, presentation_id, io) ==
    LET k == GetById(list, presentation_id) IN
    IF k = 0
    THEN Result(list, file, "DELETE_001")
    ELSE PresentationModel_save_presentations(RemoveFirst(list, list[k]),
                                              file, io, "OK")

PresentationModel_duplicate_presentation(list, file, presentation_id, uuid, now, io) ==
    LET k == GetById(list, presentation_id) IN
    IF k = 0
    THEN Result(list, file, "DUPLICATE_001")
    ELSE
      LET presentation == list[k]
          new_presentation ==
            [presentation EXCEPT !.id = Uuid(uuid),
                                 !.name = PyStr(presentation.name.s \o CopySuffix),
                                 !.created_at = Isoformat(now),
                                 !.updated_at = Isoformat(now)]
      IN IF NameTaken(list, new_presentation.name.s)
         THEN Result(list, file, "DUPLICATE_002")
         ELSE PresentationModel_save_presentations(Append(list, new_presentation),
                                                   file, io, "OK")

PresentationModel_import_from_ppt(list, file, ppt_path, env, uuid, now, io) ==
    LET presentation ==
          [id |-> Uuid(uuid),
           name |-> PyStr(SplitextRoot(Basename(ppt_path))),
           theme |-> PyStr(<<"default">>),
           slides |-> SectionList(<<Section("list", <<"Text", "Slide 1">>),
                                    Section("list", <<"Text", "Slide 2">>)>>),
           tags |-> PyStr(<<"imported,pptx">>),
           created_at |-> Isoformat(now),
           updated_at |-> Isoformat(now)]
    IN IF ~PresentationModel_validate_presentation(presentation, env)
       THEN Result(list, file, "IMPORT_001")
       ELSE PresentationModel_save_presentations(Append(list, presentation),
                                                 file, io, "OK")

-----------------------------------------------------------------------------
(* MediaModel *)

\* os.path.splitext(...)[1]: from the last "." on, unless it is the first character
SplitextExt(name) ==
    LET dots == {i \in 2..Len(name) : name[i] = "."}
    IN IF dots = {} THEN <<>>
       ELSE SubSeq(name, CHOOSE i \in dots : \A k \in dots : k <= i, Len(name))

\* os.path.join(a, b) of two relative paths
PathJoin(a, b) == a \o <<"/">> \o b

SUPPORTED_FORMATS ==
    [Images |-> {<<".", "j", "p", "g">>, <<".", "j", "p", "e", "g">>,
                 <<".", "p", "n", "g">>, <<".", "b", "m", "p">>},
     Videos |-> {<<".", "m", "p", "4">>, <<".", "m", "o", "v">>,
                 <<".", "a", "v", "i">>},
     Gifs |-> {<<".", "g", "i", "f">>}]

\* category in self.SUPPORTED_FORMATS
IsCategory(category) ==
    category \in {PyStr(<<"Images">>), PyStr(<<"Videos">>), PyStr(<<"Gifs">>)}

MediaFields ==
    {"id", "name", "path", "category", "tags", "scaling", "created_at",
     "updated_at", "is_logo"}

MediaDump(list) ==
    [i \in 1..Len(list) |-> [f \in MediaFields |-> ToJson(list[i][f])]]

MediaParse(array) ==
    [i \in 1..Len(array) |-> [f \in MediaFields |-> FromJson(array[i][f])]]

\* the outcome of a MediaModel call: the list, the metadata file, the files
MediaResult(list, file, disk, code) ==
    [list |-> list, file |-> file, disk |-> disk, code |-> code]

\* _save_media; io = FALSE is an OSError on open()
MediaModel_save_media(list, file, disk, io, code) ==
    IF io THEN MediaResult(list, MediaDump(list), disk, code)
    ELSE MediaResult(list, file, disk, "SAVE_001")

MediaModel_validate_media(m, disk) ==
    /\ m.id.ty = "str"
    /\ m.name.ty = "str" /\ Strip(m.name.s) # <<>>
    /\ m.path.ty = "str" /\ m.path.s \in disk
    /\ IsCategory(m.category)
    /\ m.tags.ty = "str"
    /\ m.scaling \in {PyStr(<<"s", "t", "r", "e", "t", "c", "h">>),
                      PyStr(<<"f", "i", "t">>), PyStr(<<"f", "i", "l", "l">>)}
    /\ m.created_at.ty = "str"
    /\ m.updated_at.ty = "str"
    /\ m.is_logo.ty = "bool"

MediaModel_load_media(file, disk) ==
    SelectSeq(MediaParse(file), LAMBDA m : MediaModel_validate_media(m, disk))

\* a: [source_path, category, display_name, tags, scaling]; sources: the
\* files that exist outside the media directory
MediaModel_add_media(list, file, disk, a, sources, uuid, now, io) ==
    LET ext == Lower(SplitextExt(a.source_path)) IN
    IF ext \notin (SUPPORTED_FORMATS.Images \cup SUPPORTED_FORMATS.Videos
                   \cup SUPPORTED_FORMATS.Gifs)
    THEN MediaResult(list, file, disk, "ADD_001")
    ELSE IF ~IsCategory(a.category)
    THEN MediaResult(list, file, disk, "ADD_002")
    ELSE
      LET filename == Uuid(uuid).s \o ext
          path == PathJoin(a.category.s, filename)
      IN IF ~io \/ a.source_path \notin sources
         THEN MediaResult(list, file, disk, "ADD_003")
         ELSE
           LET copied == disk \cup {path}
               media_data ==
                 [id |-> Uuid(uuid),
                  name |-> IF a.display_name.s # <<>> THEN a.display_name
                           ELSE PyStr(Basename(a.source_path)),
                  path |-> PyStr(path),
                  category |-> a.category,
                  tags |-> PyStr(Strip(a.tags.s)),
                  scaling |-> PyStr(Lower(a.scaling.s)),
                  created_at |-> Isoformat(now),
                  updated_at |-> Isoformat(now),
                  is_logo |-> PyBool(FALSE)]
           IN IF \E i \in 1..Len(list) : list[i].path = media_data.path
              THEN MediaResult(list, file, copied \ {path}, "ADD_004")
              ELSE IF ~MediaModel_validate_media(media_data, copied)
              THEN MediaResult(list, file, copied \ {path}, "ADD_005")
              ELSE MediaModel_save_media(Append(list, media_data), file, copied,
                                         io, "OK")

\* the stop comes before anything has been copied
MediaModel_add_media_copied_Nothing(list, file, disk, a, sources, uuid, io) ==
    LET ext == Lower(SplitextExt(a.source_path)) IN
    IF ext \notin (SUPPORTED_FORMATS.Images \cup SUPPORTED_FORMATS.Videos
                   \cup SUPPORTED_FORMATS.Gifs)
    THEN MediaResult(list, file, disk, "ADD_001")
    ELSE IF ~IsCategory(a.category)
    THEN MediaResult(list, file, disk, "ADD_002")
    ELSE IF ~io \/ a.source_path \notin sources
    THEN MediaResult(list, file, disk, "ADD_003")
    ELSE MediaResult(list, file, disk, "COPIED")

\* add_media up to the return of shutil.copy2: the file is in the media
\* directory, the record is not built yet
MediaModel_add_media_copied(list, file, disk, a, sources, uuid, io) ==
    LET ext == Lower(SplitextExt(a.source_path)) IN
    IF ext \notin (SUPPORTED_FORMATS.Images \cup SUPPORTED_FORMATS.Videos
                   \cup SUPPORTED_FORMATS.Gifs)
    THEN MediaResult(list, file, disk, "ADD_001")
    ELSE IF ~IsCategory(a.category)
    THEN MediaResult(list, file, disk, "ADD_002")
    ELSE IF ~io \/ a.source_path \notin sources
    THEN MediaResult(list, file, disk, "ADD_003")
    ELSE MediaResult(list, file,
                     disk \cup {PathJoin(a.category.s, Uuid(uuid).s \o ext)},
                     "COPIED")

\* the record update_media builds before it renames: media_data over the
\* stored record, whose id, path, created_at and is_logo are kept
MediaModel_update_candidate(m, media_data, now) ==
    [id |-> m.id,
     path |-> m.path,
     created_at |-> m.created_at,
     updated_at |-> Isoformat(now),
     is_logo |-> m.is_logo,
     category |-> IF media_data.category.ty = "absent" THEN m.category
                  ELSE media_data.category,
     name |-> IF media_data.name.ty = "absent" THEN m.name ELSE media_data.name,
     tags |-> IF media_data.tags.ty = "absent" THEN m.tags ELSE media_data.tags,
     scaling |-> IF media_data.scaling.ty = "absent" THEN m.scaling
                 ELSE media_data.scaling]

\* abs: os.path.join(media_dir, new_path) is new_path itself, as media_dir is
\* absolute; otherwise it names media_dir/media_dir/..., a directory nobody made
MediaModel_update_media(list, file, disk, media_id, media_data, abs, now, io) ==
    LET k == GetById(list, media_id) IN
    IF k = 0
    THEN MediaResult(list, file, disk, "UPDATE_001")
    ELSE
      LET m == list[k]
          cand == MediaModel_update_candidate(m, media_data, now)
      IN IF cand.name = m.name /\ cand.category = m.category
         THEN IF ~MediaModel_validate_media(cand, disk)
              THEN MediaResult(list, file, disk, "UPDATE_003")
              ELSE MediaModel_save_media(Append(RemoveFirst(list, m), cand),
                                         file, disk, io, "OK")
         ELSE IF cand.category.ty # "str"
         THEN MediaResult(list, file, disk, "UPDATE_004")
         ELSE
           LET new_filename == media_id.s \o SplitextExt(m.path.s)
               new_path == PathJoin(cand.category.s, new_filename)
           IN IF ~io \/ ~abs \/ m.path.s \notin disk
              THEN MediaResult(list, file, disk, "UPDATE_002")
              ELSE
                LET renamed == (disk \ {m.path.s}) \cup {new_path}
                    moved == [cand EXCEPT !.path = PyStr(new_path)]
                IN IF ~MediaModel_validate_media(moved, renamed)
                   THEN MediaResult(list, file, renamed, "UPDATE_003")
                   ELSE MediaModel_save_media(Append(RemoveFirst(list, m), moved),
                                              file, renamed, io, "OK")

MediaModel_delete_media(list, file, disk, media_id, io) ==
    LET k == GetById(list, media_id) IN
    IF k = 0
    THEN MediaResult(list, file, disk, "DELETE_001")
    ELSE IF ~io \/ list[k].path.s \notin disk
    THEN MediaResult(list, file, disk, "DELETE_002")
    ELSE MediaModel_save_media(RemoveFirst(list, list[k]), file,
                               disk \ {list[k].path.s}, io, "OK")

\* name.rsplit('.', 1) cuts at position LastDot(name); 0 when there is no "."
LastDot(name) ==
    LET dots == {i \in 1..Len(name) : name[i] = "."}
    IN IF dots = {} THEN 0 ELSE CHOOSE i \in dots : \A k \in dots : k <= i

\* the copy keeps the logo flag of the record it is made from
MediaModel_duplicate_candidate_KeepLogo(m, new_id, now) ==
    [m EXCEPT
        !.id = Uuid(new_id),
        !.name = PyStr(SubSeq(m.name.s, 1, LastDot(m.name.s) - 1) \o CopySuffix
                       \o SubSeq(m.name.s, LastDot(m.name.s), Len(m.name.s))),
        !.path = PyStr(PathJoin(m.category.s,
                                Uuid(new_id).s \o SplitextExt(m.path.s))),
        !.created_at = Isoformat(now),
        !.updated_at = Isoformat(now)]

\* new_media of duplicate_media
MediaModel_duplicate_candidate(m, new_id, now) ==
    [id |-> Uuid(new_id),
     name |-> PyStr(SubSeq(m.name.s, 1, LastDot(m.name.s) - 1) \o CopySuffix
                    \o SubSeq(m.name.s, LastDot(m.name.s), Len(m.name.s))),
     path |-> PyStr(PathJoin(m.category.s, Uuid(new_id).s \o SplitextExt(m.path.s))),
     category |-> m.category,
     tags |-> m.tags,
     scaling |-> m.scaling,
     created_at |-> Isoformat(now),
     updated_at |-> Isoformat(now),
     is_logo |-> PyBool(FALSE)]

MediaModel_duplicate_media(list, file, disk, media_id, uuid, now, io) ==
    LET k == GetById(list, media_id) IN
    IF k = 0
    THEN MediaResult(list, file, disk, "DUPLICATE_001")
    ELSE IF LastDot(list[k].name.s) = 0
    THEN MediaResult(list, file, disk, "DUPLICATE_004")
    ELSE IF ~io \/ list[k].path.s \notin disk
    THEN MediaResult(list, file, disk, "DUPLICATE_002")
    ELSE
      LET new_media == MediaModel_duplicate_candidate(list[k], uuid, now)
          copied == disk \cup {new_media.path.s}
      IN IF ~MediaModel_validate_media(new_media, copied)
         THEN MediaResult(list, file, copied \ {new_media.path.s}, "DUPLICATE_003")
         ELSE MediaModel_save_media(Append(list, new_media), file, copied, io, "OK")

MediaModel_set_logo(list, file, disk, media_id, io) ==
    LET k == GetById(list, media_id) IN
    IF k = 0 \/ list[k].category # PyStr(<<"Images">>)
    THEN MediaResult(list, file, disk, "SET_LOGO_001")
    ELSE MediaModel_save_media(
             [i \in 1..Len(list) |->
                 [list[i] EXCEPT !.is_logo = PyBool(list[i].id = media_id)]],
             file, disk, io, "OK")

-----------------------------------------------------------------------------
(* Inputs of the SongModel calls *)

Times == {1}

TitleA == <<"a">>
TitleUpperA == <<"A">>
TitleACopy == <<"a", " ", "(", "c", "o", "p", "y", ")">>
TitleBlank == <<" ">>

SongTitleInputs == {TitleA, TitleUpperA, TitleACopy, TitleBlank, <<>>}

GoodSections == SectionList(<<Section("list", <<"Verse 1", "x">>)>>)
TupleSections == SectionList(<<Section("tuple", <<"Verse 1", "x">>)>>)

SongData(title, sections, tags) ==
    [title |-> title, sections |-> sections, tags |-> tags, key |-> Absent]

\* song_data that also gives the musical key, as a tuple
KeyedSong ==
    [title |-> PyStr(TitleACopy), sections |-> GoodSections,
     tags |-> PyStr(<<"hymn">>), key |-> [ty |-> "tuple", s |-> <<"C", "G">>, n |-> 0]]

SongInputs ==
    {SongData(PyStr(t), sec, PyStr(<<"hymn">>)) :
        t \in SongTitleInputs, sec \in {NoSections, GoodSections}}
    \cup {SongData(PyStr(TitleACopy), sec, PyStr(<<"hymn">>)) :
        sec \in {TupleSections,
                 SectionList(<<Section("list", <<"Verse 1">>)>>),
                 [ty |-> "str", items |-> <<>>]}}
    \cup {SongData(PyStr(TitleACopy), GoodSections, tags) : tags \in {Absent, PyInt(1)}}
    \cup {SongData(title, GoodSections, PyStr(<<"hymn">>)) : title \in {Absent, PyInt(1)}}
    \cup {KeyedSong}

\* the titles a caller looks a song up by
SongTitleArgs == {TitleA, TitleUpperA, TitleACopy, TitleA \o CopySuffix}

-----------------------------------------------------------------------------
(* SongModel calls *)

SongCall(r) ==
    /\ songs' = r.list
    /\ songFile' = r.file
    /\ UNCHANGED <<focus, diskOk, nextUuid, themeVars, presentationVars, mediaVars,
                   tabVars, extVars>>

add_song ==
    /\ focus = "songs"
    /\ Len(songs) < MaxSongs
    /\ \E song_data \in SongInputs, now \in Times :
          SongCall(SongModel_add_song(songs, songFile, song_data, now, diskOk))

update_song ==
    /\ focus = "songs"
    /\ \E old_title \in SongTitleArgs, song_data \in SongInputs, now \in Times :
          SongCall(SongModel_update_song(songs, songFile, old_title, song_data, now, diskOk))

delete_song ==
    /\ focus = "songs"
    /\ \E title \in SongTitleArgs :
          SongCall(SongModel_delete_song(songs, songFile, title, diskOk))

duplicate_song ==
    /\ focus = "songs"
    /\ Len(songs) < MaxSongs
    /\ \E title \in SongTitleArgs, now \in Times :
          SongCall(SongModel_duplicate_song(songs, songFile, title, now, diskOk))

\* a new SongModel on the same file: __init__ runs _load_songs
load_songs ==
    /\ focus = "songs"
    /\ SongCall(Result(SongModel_load_songs(songFile), songFile, "OK"))

SongNext == add_song \/ update_song \/ delete_song \/ duplicate_song \/ load_songs

-----------------------------------------------------------------------------
(* Inputs of the ThemeModel calls *)

GoodTheme(name) ==
    [name |-> name,
     context |-> PyStr(<<"Songs">>),
     alignment |-> PyStr(<<"Centered">>),
     font_color |-> PyStr(<<"#", "f">>),
     background_color |-> PyStr(<<"#", "0">>),
     font_size |-> PyInt(12),
     font_family |-> PyStr(<<"Arial">>),
     tags |-> PyStr(<<>>)]

ThemeInputs ==
    {GoodTheme(PyStr(n)) : n \in SongTitleInputs}
    \cup {GoodTheme(PyInt(1)),
          [GoodTheme(PyStr(TitleACopy)) EXCEPT !.context = PyStr(<<"Media">>)],
          [GoodTheme(PyStr(TitleACopy)) EXCEPT !.font_color = PyStr(<<"r", "e", "d">>)],
          [GoodTheme(PyStr(TitleACopy)) EXCEPT !.font_size = PyInt(0)],
          [GoodTheme(PyStr(TitleACopy)) EXCEPT !.font_size = PyStr(<<"1", "2">>)],
          [GoodTheme(PyStr(TitleACopy)) EXCEPT !.font_size = PyBool(TRUE)],
          [GoodTheme(PyStr(TitleACopy)) EXCEPT !.font_family = PyStr(TitleBlank)],
          [GoodTheme(PyStr(TitleACopy)) EXCEPT !.tags = PyNone]}

\* an updated_data dict with the one key f
ThemeUpdate(f, v) == [g \in ThemeFields |-> IF g = f THEN v ELSE Absent]

ThemeUpdateInputs ==
    {ThemeUpdate("name", PyStr(n)) : n \in SongTitleInputs}
    \cup {ThemeUpdate("name", PyInt(1)),
          ThemeUpdate("id", Uuid(0)),
          ThemeUpdate("alignment", PyStr(<<"Justified">>)),
          ThemeUpdate("font_size", PyInt(0)),
          ThemeUpdate("font_size", PyBool(TRUE))}

\* the identifiers a caller looks a record up by
UuidArgs == {Uuid(k) : k \in 1..MaxUuids}

-----------------------------------------------------------------------------
(* ThemeModel calls *)

ThemeCall(r, used) ==
    /\ themes' = r.list
    /\ deletedThemes' = deletedThemes
           \cup {themes[i].id : i \in {k \in 1..Len(themes) :
                                          \A j \in 1..Len(r.list) :
                                              r.list[j].id # themes[k].id}}
    /\ themeFile' = r.file
    /\ nextUuid' = nextUuid + used
    /\ UNCHANGED <<focus, diskOk, songVars, presentationVars, mediaVars, tabVars, extVars>>

create_theme ==
    /\ focus \in {"themes", "presentations"}
    /\ Len(themes) < MaxThemes /\ nextUuid <= MaxUuids
    /\ \E a \in IF focus = "themes" THEN ThemeInputs
                  ELSE {GoodTheme(PyStr(TitleA))},
          now \in Times :
          LET r == ThemeModel_create_theme(themes, themeFile, a, nextUuid, now, diskOk)
          IN ThemeCall(r,
                       IF r.code \in {"CREATE_003", "SAVE_001", "OK"} THEN 1 ELSE 0)

update_theme ==
    /\ focus \in {"themes", "presentations"}
    /\ \E theme_id \in UuidArgs,
          updated_data \in IF focus = "themes" THEN ThemeUpdateInputs
                           ELSE {ThemeUpdate("name", PyStr(TitleUpperA))},
          now \in Times :
          ThemeCall(ThemeModel_update_theme(themes, themeFile, theme_id,
                                            updated_data, now, diskOk), 0)

delete_theme ==
    /\ focus \in {"themes", "presentations"}
    /\ \E theme_id \in UuidArgs :
          ThemeCall(ThemeModel_delete_theme(themes, themeFile, theme_id, diskOk), 0)

duplicate_theme ==
    /\ focus \in {"themes"}
    /\ Len(themes) < MaxThemes /\ nextUuid <= MaxUuids
    /\ \E theme_id \in UuidArgs, now \in Times :
          LET r == ThemeModel_duplicate_theme(themes, themeFile, theme_id,
                                              nextUuid, now, diskOk)
          IN ThemeCall(r,
                       IF r.code = "DUPLICATE_001" THEN 0 ELSE 1)

\* a new ThemeModel on the same file: __init__ runs _load_themes
load_themes ==
    /\ focus = "themes"
    /\ ThemeCall(Result(ThemeModel_load_themes(themeFile), themeFile, "OK"), 0)

ThemeNext ==
    create_theme \/ update_theme \/ delete_theme \/ duplicate_theme \/ load_themes

\* elements of a JSON array that the program did not write
JsonScalars == {[jt |-> "number", s |-> <<>>, n |-> 5], [jt |-> "null", s |-> <<>>, n |-> 0]}

SongElements ==
    LET good == SongsDump(<<SongModel_add_candidate(SongData(PyStr(TitleA), GoodSections, PyStr(<<>>)), 1)>>)[1]
    IN {good, [good EXCEPT !.title = ToJson(PyStr(TitleBlank))],
        [good EXCEPT !.title = ToJson(PyStr(TitleUpperA)), !.tags = ToJson(PyNone)]}

ThemeElements ==
    LET good == ThemesDump(<<ThemeModel_create_candidate(GoodTheme(PyStr(TitleA)), 0, 1)>>)[1]
    IN {good, [good EXCEPT !.font_size = ToJson(PyInt(0))]}

ArraysOf(elements) ==
    {<<>>} \cup {<<e>> : e \in elements} \cup {<<e, f>> : e \in elements, f \in elements}

\* the program started on a songs file written elsewhere: main.py raises when
\* SongModel.__init__ does, and the process ends
start_on_songs_file ==
    /\ focus = "songs"
    /\ \E array \in ArraysOf(SongElements \cup JsonScalars) :
          LET r == SongModel_load_songs_file(array)
          IN /\ songs' = r.list
             /\ songFile' = array
             /\ focus' = IF r.code = "OK" THEN focus ELSE "stopped"
    /\ UNCHANGED <<diskOk, nextUuid, themeVars, presentationVars, mediaVars,
                   tabVars, extVars>>

start_on_themes_file ==
    /\ focus = "themes"
    /\ \E array \in ArraysOf(ThemeElements \cup JsonScalars) :
          LET r == ThemeModel_load_themes_file(array)
          IN /\ themes' = r.list
             /\ themeFile' = array
             /\ focus' = IF r.code = "OK" THEN focus ELSE "stopped"
    /\ UNCHANGED <<diskOk, nextUuid, songVars, deletedThemes, presentationVars,
                   mediaVars, tabVars, extVars>>

-----------------------------------------------------------------------------
(* Inputs of the PresentationModel calls *)

AudioSlides == SectionList(<<Section("list", <<"Audio", "x.mp3">>)>>)

DefaultTheme == PyStr(<<"default">>)

PresentationArgs(name, theme, slides, tags) ==
    [name |-> name, theme |-> theme, slides |-> slides, tags |-> tags]

PresentationInputs ==
    {PresentationArgs(PyStr(n), theme, NoSections, PyStr(<<>>)) :
        n \in {TitleA, TitleUpperA, TitleBlank},
        theme \in {DefaultTheme, Uuid(1)}}
    \cup {PresentationArgs(PyStr(TitleA), Uuid(1), slides, PyStr(<<>>)) :
        slides \in {SectionList(<<Section("list", <<"Image", "Images/1.png">>)>>),
                    AudioSlides}}
    \cup {PresentationArgs(PyStr(TitleA), PyNone, NoSections, PyStr(<<>>)),
          PresentationArgs(PyInt(1), Uuid(1), NoSections, PyStr(<<>>))}

\* an updated_data dict with the one key f
PresentationUpdate(f, v) ==
    [g \in PresentationFields |->
        IF g = f THEN v ELSE IF g = "slides" THEN NoSections ELSE Absent]

PresentationUpdateInputs ==
    {PresentationUpdate("name", PyStr(n)) : n \in {TitleUpperA, TitleBlank}}
    \cup {PresentationUpdate("theme", t) : t \in {DefaultTheme, Uuid(1), PyNone}}
    \cup {PresentationUpdate("slides", AudioSlides),
          PresentationUpdate("name", PyInt(1))}

PptPaths ==
    {<<"a", ".", "pptx">>, <<"/", "d", ".", "x", "/", "A", ".", "pptx">>, <<>>}

-----------------------------------------------------------------------------
(* PresentationModel calls *)

\* what the PresentationModel sees of the models it was constructed with;
\* the media directory holds no file in these runs
PresentationEnv ==
    [theme_model |-> attached.theme_model, themes |-> themes,
     media_model |-> attached.media_model, files |-> {}]

PresentationCall(r, used) ==
    /\ presentations' = r.list
    /\ presentationFile' = r.file
    /\ nextUuid' = nextUuid + used
    /\ UNCHANGED <<focus, diskOk, songVars, themeVars, attached, mediaVars,
                   tabVars, extVars>>

create_presentation ==
    /\ focus = "presentations"
    /\ Len(presentations) < MaxPresentations /\ nextUuid <= MaxUuids
    /\ \E a \in PresentationInputs, now \in Times :
          LET r == PresentationModel_create_presentation(
                       presentations, presentationFile, a, PresentationEnv,
                       nextUuid, now, diskOk)
          IN PresentationCall(r,
                              IF r.code \in {"CREATE_003", "SAVE_001", "OK"} THEN 1 ELSE 0)

update_presentation ==
    /\ focus = "presentations"
    /\ \E presentation_id \in UuidArgs, updated_data \in PresentationUpdateInputs,
          now \in Times :
          PresentationCall(PresentationModel_update_presentation(
                  presentations, presentationFile, presentation_id, updated_data,
                  PresentationEnv, now, diskOk), 0)

delete_presentation ==
    /\ focus = "presentations"
    /\ \E presentation_id \in UuidArgs :
          PresentationCall(PresentationModel_delete_presentation(
                  presentations, presentationFile, presentation_id, diskOk), 0)

duplicate_presentation ==
    /\ focus = "presentations"
    /\ Len(presentations) < MaxPresentations /\ nextUuid <= MaxUuids
    /\ \E presentation_id \in UuidArgs, now \in Times :
          LET r == PresentationModel_duplicate_presentation(
                       presentations, presentationFile, presentation_id,
                       nextUuid, now, diskOk)
          IN PresentationCall(r,
                              IF r.code = "DUPLICATE_001" THEN 0 ELSE 1)

import_from_ppt ==
    /\ focus = "presentations"
    /\ Len(presentations) < MaxPresentations /\ nextUuid <= MaxUuids
    /\ \E ppt_path \in PptPaths, now \in Times :
          PresentationCall(PresentationModel_import_from_ppt(
                  presentations, presentationFile, ppt_path, PresentationEnv,
                  nextUuid, now, diskOk), 1)

\* a new PresentationModel on the same file: __init__ runs _load_presentations
load_presentations ==
    /\ focus = "presentations"
    /\ PresentationCall(Result(PresentationModel_load_presentations(presentationFile, PresentationEnv),
                  presentationFile, "OK"), 0)

PresentationNext ==
    \/ create_presentation \/ update_presentation \/ delete_presentation
    \/ duplicate_presentation \/ import_from_ppt \/ load_presentations

-----------------------------------------------------------------------------
(* MediaModel calls *)

SrcPicture == <<"u", "/", "p", ".", "J", "P", "G">>

\* the files that exist outside the media directory
Sources == {SrcPicture, <<"n", ".", "t", "x", "t">>}

MediaArgs(source_path, category, display_name, scaling) ==
    [source_path |-> source_path, category |-> PyStr(<<category>>),
     display_name |-> PyStr(display_name), tags |-> PyStr(<<>>),
     scaling |-> PyStr(scaling)]

MediaInputs ==
    {MediaArgs(SrcPicture, "Images", <<>>, <<"F", "I", "T">>),
     MediaArgs(SrcPicture, "Images", <<>>, <<"z", "o", "o", "m">>),
     MediaArgs(SrcPicture, "Slides", <<>>, <<"f", "i", "t">>),
     MediaArgs(<<"n", ".", "t", "x", "t">>, "Images", <<>>, <<"f", "i", "t">>),
     MediaArgs(<<"g", ".", "p", "n", "g">>, "Images", <<>>, <<"f", "i", "t">>)}

MediaData(category, name, scaling, is_logo) ==
    [category |-> category, name |-> name, tags |-> Absent,
     scaling |-> scaling, is_logo |-> is_logo]

MediaUpdateInputs ==
    {MediaData(Absent, Absent, Absent, PyBool(TRUE)),
     MediaData(Absent, PyStr(TitleBlank), Absent, Absent),
     MediaData(PyStr(<<"Videos">>), Absent, Absent, Absent),
     MediaData(PyStr(<<"Videos">>), Absent, PyStr(<<"z", "o", "o", "m">>), Absent),
     MediaData(PyNone, Absent, Absent, Absent)}

MediaCall(r, used) ==
    /\ media' = r.list
    /\ mediaFile' = r.file
    /\ mediaDisk' = r.disk
    /\ nextUuid' = nextUuid + used
    /\ UNCHANGED <<focus, diskOk, songVars, themeVars, presentationVars,
                   mediaDirAbs, tabVars, extVars>>

add_media ==
    /\ focus = "media"
    /\ Len(media) < MaxMedia /\ nextUuid <= MaxUuids
    /\ \E a \in MediaInputs, now \in Times :
          LET r == MediaModel_add_media(media, mediaFile, mediaDisk, a, Sources,
                                        nextUuid, now, diskOk)
          IN MediaCall(r, IF r.code \in {"ADD_001", "ADD_002"} THEN 0 ELSE 1)

update_media ==
    /\ focus = "media"
    /\ \E media_id \in UuidArgs, media_data \in MediaUpdateInputs, now \in Times :
          MediaCall(MediaModel_update_media(media, mediaFile, mediaDisk, media_id,
                                            media_data, mediaDirAbs, now, diskOk),
                    0)

delete_media ==
    /\ focus = "media"
    /\ \E media_id \in UuidArgs :
          MediaCall(MediaModel_delete_media(media, mediaFile, mediaDisk, media_id,
                                            diskOk), 0)

duplicate_media ==
    /\ focus = "media"
    /\ Len(media) < MaxMedia /\ nextUuid <= MaxUuids
    /\ \E media_id \in UuidArgs, now \in Times :
          LET r == MediaModel_duplicate_media(media, mediaFile, mediaDisk,
                                              media_id, nextUuid, now, diskOk)
          IN MediaCall(r, IF r.code = "DUPLICATE_001" THEN 0 ELSE 1)

set_logo ==
    /\ focus = "media"
    /\ \E media_id \in UuidArgs :
          MediaCall(MediaModel_set_logo(media, mediaFile, mediaDisk, media_id,
                                        diskOk), 0)

\* a new MediaModel on the same file: __init__ runs _load_media
load_media ==
    /\ focus = "media"
    /\ MediaCall(MediaResult(MediaModel_load_media(mediaFile, mediaDisk),
                             mediaFile, mediaDisk, "OK"), 0)

\* the process stops inside add_media, after the copy; the next process
\* loads the metadata file
add_media_stopped ==
    /\ focus = "media"
    /\ nextUuid <= MaxUuids
    /\ \E a \in MediaInputs :
          LET c == MediaModel_add_media_copied(media, mediaFile, mediaDisk, a,
                                               Sources, nextUuid, diskOk)
          IN /\ c.code = "COPIED"
             /\ MediaCall(MediaResult(MediaModel_load_media(c.file, c.disk),
                                      c.file, c.disk, "OK"), 1)

MediaNext ==
    \/ add_media \/ update_media \/ delete_media \/ duplicate_media
    \/ set_logo \/ load_media

-----------------------------------------------------------------------------
(* SongsTab: the Songs tab keeps its own list and writes SONGS_FILE itself *)

TabSong(title, sections, tags) ==
    [title |-> title, sections |-> sections, tags |-> tags]

TabDump(list) ==
    [i \in 1..Len(list) |->
        [title |-> ToJson(list[i].title),
         sections |-> SectionsToJson(list[i].sections),
         tags |-> ToJson(list[i].tags)]]

TabParse(array) ==
    [i \in 1..Len(array) |->
        [title |-> FromJson(array[i].title),
         sections |-> SectionsFromJson(array[i].sections),
         tags |-> FromJson(array[i].tags)]]

\* the outcome of a Songs tab handler: the list, the file, the current row
TabResult(list, file, row) == [list |-> list, file |-> file, row |-> row]

\* any(s["title"] == title for s in self.songs)
TabTitleTaken(list, title) == \E i \in 1..Len(list) : list[i].title = title

\* next((s for s in self.songs if s["title"] == title), None), as an index
TabFind(list, title) ==
    LET hits == {i \in 1..Len(list) : list[i].title = title}
    IN IF hits = {} THEN 0 ELSE CHOOSE i \in hits : \A k \in hits : i <= k

\* save_songs and the perform_search that follows it in every handler: an
\* OSError is shown in a message box, the list is kept; with the empty query
\* every song is listed and the first row becomes the current one
SongsTab_save_songs(list, file, io) ==
    TabResult(list, IF io THEN TabDump(list) ELSE file,
              IF list = <<>> THEN 0 ELSE 1)

\* the hymns of HYMNS_JSON whose title no song has yet, in order
RECURSIVE MergeHymns(_, _)
MergeHymns(list, more) ==
    IF more = <<>> THEN list
    ELSE MergeHymns(IF TabTitleTaken(list, Head(more).title) THEN list
                    ELSE Append(list, Head(more)),
                    Tail(more))

SongsTab_load_songs(file, hymnList, io) ==
    SongsTab_save_songs(MergeHymns(TabParse(file), hymnList), file, io)

\* AddEditSongDialog.get_data
GetData(d) == TabSong(PyStr(Strip(d.title.s)), d.sections, d.tags)

SongsTab_add_song(list, file, row, d, io) ==
    LET new_song == GetData(d) IN
    IF new_song.title.s = <<>> \/ TabTitleTaken(list, new_song.title)
    THEN TabResult(list, file, row)
    ELSE SongsTab_save_songs(Append(list, new_song), file, io)

SongsTab_edit_song(list, file, row, d, io) ==
    IF row = 0 THEN TabResult(list, file, row)
    ELSE
      LET title == list[row].title
          k == TabFind(list, title)
          updated_data == GetData(d)
      IN IF \/ updated_data.title.s = <<>>
            \/ updated_data.title # title /\ TabTitleTaken(list, updated_data.title)
         THEN TabResult(list, file, row)
         ELSE SongsTab_save_songs([list EXCEPT ![k] = updated_data], file, io)

SongsTab_delete_song(list, file, row, io) ==
    IF row = 0 THEN TabResult(list, file, row)
    ELSE SongsTab_save_songs(
             SelectSeq(list, LAMBDA s : s.title # list[row].title), file, io)

\* the "Duplicate Song" entry of show_context_menu
SongsTab_duplicate(list, file, row, io) ==
    IF row = 0 THEN TabResult(list, file, row)
    ELSE
      LET song == list[TabFind(list, list[row].title)]
          new_song == TabSong(PyStr(song.title.s \o CopySuffix), song.sections,
                              song.tags)
      IN IF TabTitleTaken(list, new_song.title)
         THEN TabResult(list, file, row)
         ELSE SongsTab_save_songs(Append(list, new_song), file, io)

\* what the user leaves in the dialog
DialogInputs ==
    {TabSong(PyStr(t), SectionList(<<>>), PyStr(<<>>)) :
        t \in {TitleA, TitleUpperA, <<" ">> \o TitleA, TitleBlank}}
    \cup {TabSong(PyStr(TitleA), GoodSections, PyStr(<<"hymn">>))}

HymnFiles ==
    {<<>>, <<TabSong(PyStr(TitleUpperA), SectionList(<<>>), PyStr(<<"hymn">>))>>}

\* the search box as clear_search leaves it
AllTags == <<"All Tags">>

\* a handler of the dialogs and menus, used with the search box cleared: the
\* perform_search it ends with lists every song
TabCall(r) ==
    /\ search_input = <<>> /\ tag_filter = AllTags
    /\ tabSongs' = r.list
    /\ tabFile' = r.file
    /\ tabRow' = r.row
    /\ search_results' = [i \in 1..Len(r.list) |-> i]
    /\ UNCHANGED <<focus, diskOk, nextUuid, songVars, themeVars,
                   presentationVars, mediaVars, hymns, search_input, tag_filter,
                   settingsVars, pairVars, liveVars, previewVars, uiVars>>

tab_load_songs ==
    /\ focus = "songs tab"
    /\ TabCall(SongsTab_load_songs(tabFile, hymns, diskOk))

tab_add_song ==
    /\ focus = "songs tab"
    /\ Len(tabSongs) < MaxTabSongs
    /\ \E d \in DialogInputs :
          TabCall(SongsTab_add_song(tabSongs, tabFile, tabRow, d, diskOk))

tab_edit_song ==
    /\ focus = "songs tab"
    /\ \E d \in DialogInputs :
          TabCall(SongsTab_edit_song(tabSongs, tabFile, tabRow, d, diskOk))

tab_delete_song ==
    /\ focus = "songs tab"
    /\ TabCall(SongsTab_delete_song(tabSongs, tabFile, tabRow, diskOk))

tab_duplicate ==
    /\ focus = "songs tab"
    /\ Len(tabSongs) < MaxTabSongs
    /\ tabRow # 0 => Len(tabSongs[tabRow].title.s) + Len(CopySuffix) <= MaxTitleLen
    /\ TabCall(SongsTab_duplicate(tabSongs, tabFile, tabRow, diskOk))

\* the user clicks a row of song_list
tab_select ==
    /\ focus = "songs tab"
    /\ \E row \in 1..Len(tabSongs) : TabCall(TabResult(tabSongs, tabFile, row))

\* query in text, for two str
Contains(text, query) ==
    \E i \in 1..(Len(text) - Len(query) + 1) : SubSeq(text, i, i + Len(query) - 1) = query

\* tags.split(",")
RECURSIVE Split(_)
Split(tags) ==
    LET commas == {i \in 1..Len(tags) : tags[i] = ","}
    IN IF commas = {} THEN <<tags>>
       ELSE LET i == CHOOSE c \in commas : \A d \in commas : c <= d
            IN <<SubSeq(tags, 1, i - 1)>> \o Split(SubSeq(tags, i + 1, Len(tags)))

\* perform_search in title mode: search_results holds the index self.songs
\* gives each matching song, song_list holds one row per matching song and
\* its first row becomes the current one
SongsTab_perform_search(list, text, selected_tag) ==
    LET query == Strip(Lower(text))
        matches(i) ==
            /\ Contains(Lower(list[i].title.s), query)
            /\ \/ selected_tag = AllTags
               \/ \E k \in 1..Len(Split(list[i].tags.s)) :
                     Split(list[i].tags.s)[k] = selected_tag
        results == SelectSeq([i \in 1..Len(list) |-> i], matches)
    IN [results |-> results, row |-> IF results = <<>> THEN 0 ELSE 1]

\* handle_list_keypress: the row given to setCurrentRow, 0 when the handler
\* returns without a call.  Rows and indices are counted from 1, so
\* current_index is 0 where list.index gives no position (-1 in the code).
SongsTab_handle_list_keypress(current_row, results, key) ==
    LET hits == {i \in 1..Len(results) : results[i] = current_row}
        current_index == IF hits = {} THEN 0
                         ELSE CHOOSE i \in hits : \A k \in hits : i <= k
    IN IF results = <<>> THEN 0
       ELSE IF key = "Up" /\ current_index > 1 THEN results[current_index - 1]
       ELSE IF key = "Down" /\ current_index < Len(results)
       THEN results[current_index + 1]
       ELSE 0

SearchCall ==
    UNCHANGED <<focus, diskOk, nextUuid, songVars, themeVars, presentationVars,
                mediaVars, tabSongs, tabFile, hymns, settingsVars, pairVars,
                liveVars, previewVars, uiVars>>

\* the user types in the search box or picks a tag; "" and All Tags is what
\* clear_search sets before it calls perform_search
perform_search ==
    /\ focus = "songs tab"
    /\ \E text \in {<<>>, <<"C">>, <<"z">>}, selected_tag \in {AllTags, <<"hymn">>} :
          LET r == SongsTab_perform_search(tabSongs, text, selected_tag)
          IN /\ search_input' = text
             /\ tag_filter' = selected_tag
             /\ search_results' = r.results
             /\ tabRow' = r.row
    /\ SearchCall

\* QListWidget.setCurrentRow(row) with a row the list does not have leaves
\* the list without a current row
list_keypress ==
    /\ focus = "songs tab"
    /\ \E key \in {"Up", "Down"} :
          LET next_row == SongsTab_handle_list_keypress(tabRow, search_results, key)
          IN tabRow' = IF next_row = 0 THEN tabRow
                       ELSE IF next_row <= Len(search_results) THEN next_row
                       ELSE 0
    /\ UNCHANGED <<searchVars, uiVars>>
    /\ SearchCall

SongsTabNext ==
    \/ tab_load_songs \/ tab_add_song \/ tab_edit_song \/ tab_delete_song
    \/ tab_duplicate \/ tab_select

-----------------------------------------------------------------------------
(* SettingsManager.  A dict is a function from its keys; of the default
   settings the model keeps the keys _validate_settings and set_setting
   look at.  sharedSections are the sections whose dict object is the one
   default_settings holds: dict.copy() copies the outer dict only. *)

\* a float, counted in tenths
PyFloat(tenths) == [ty |-> "float", s |-> <<>>, n |-> tenths]

IsDict(v) == DOMAIN v \cap {"ty", "jt"} = {}

\* d[k] = v
Put(d, k, v) == [x \in DOMAIN d \cup {k} |-> IF x = k THEN v ELSE d[x]]

DefaultSettings ==
    [general |-> [startup_screen |-> PyStr(<<"Songs">>),
                  language |-> PyStr(<<"English">>)],
     appearance |-> [theme |-> PyStr(<<"Light">>)],
     paths |-> [media |-> PyStr(<<"data/media">>)],
     behavior |-> [auto_save_interval |-> PyInt(300),
                   default_playback_speed |-> PyFloat(10)],
     advanced |-> [developer_mode |-> PyBool(FALSE),
                   log_level |-> PyStr(<<"INFO">>)]]

\* the order in which default_settings lists its sections
SectionOrder == <<"general", "appearance", "paths", "behavior", "advanced">>

SettingsDump(obj) ==
    [kind |-> "json",
     doc |-> [sec \in DOMAIN obj |->
                 IF IsDict(obj[sec])
                 THEN [k \in DOMAIN obj[sec] |-> ToJson(obj[sec][k])]
                 ELSE ToJson(obj[sec])]]

SettingsParse(file) ==
    [sec \in DOMAIN file.doc |->
        IF IsDict(file.doc[sec])
        THEN [k \in DOMAIN file.doc[sec] |-> FromJson(file.doc[sec][k])]
        ELSE FromJson(file.doc[sec])]

Manager(obj, defaults, shared, file, code) ==
    [settings |-> obj, defaults |-> defaults, shared |-> shared, file |-> file,
     code |-> code, restart_required |-> FALSE]

\* io = FALSE is an OSError on open()
SettingsManager_save_settings(m, io) ==
    IF io THEN [m EXCEPT !.file = SettingsDump(m.settings)]
    ELSE [m EXCEPT !.code = "SAVE_001"]

\* a section of the file taken whole, in place of the default section
SettingsManager_merge_settings_Sections(defaults, loaded) ==
    [sec \in DOMAIN defaults \cup DOMAIN loaded |->
        IF sec \in DOMAIN loaded THEN loaded[sec] ELSE defaults[sec]]

\* _merge_settings at its two levels: a section of the file is merged key by
\* key into a copy of the default section, anything else is taken as it is
SettingsManager_merge_settings(defaults, loaded) ==
    [sec \in DOMAIN defaults \cup DOMAIN loaded |->
        IF sec \notin DOMAIN loaded THEN defaults[sec]
        ELSE IF sec \in DOMAIN defaults /\ IsDict(defaults[sec]) /\ IsDict(loaded[sec])
        THEN [k \in DOMAIN defaults[sec] \cup DOMAIN loaded[sec] |->
                 IF k \in DOMAIN loaded[sec] THEN loaded[sec][k]
                 ELSE defaults[sec][k]]
        ELSE loaded[sec]]

\* the tests of _validate_settings; isinstance(True, int) holds in Python
ValidSetting(section, key, v) ==
    CASE section = "general" /\ key = "startup_screen" ->
            v.ty = "str" /\ v.s \in {<<"Songs">>, <<"Scriptures">>, <<"Media">>,
                                     <<"Presentations">>, <<"Themes">>}
      [] section = "general" /\ key = "language" ->
            v.ty = "str" /\ v.s \in {<<"English">>, <<"Spanish">>, <<"French">>,
                                     <<"German">>}
      [] section = "appearance" /\ key = "theme" ->
            v.ty = "str" /\ v.s \in {<<"Light">>, <<"Dark">>}
      [] section = "behavior" /\ key = "auto_save_interval" ->
            v.ty \in {"int", "bool"} /\ v.n >= 60 /\ v.n <= 3600
      [] section = "behavior" /\ key = "default_playback_speed" ->
            v.ty = "float" /\ v.n >= 5 /\ v.n <= 20
      [] section = "paths" -> v.ty = "str"
      [] OTHER -> TRUE

\* _validate_settings walks the sections in order and raises at the first
\* one that is not a dict, having put the defaults into the ones before it
SettingsManager_validate_settings(m, io) ==
    LET obj == m.settings
        n == Len(SectionOrder)
        bad == {i \in 1..n : ~IsDict(obj[SectionOrder[i]])}
        stop == IF bad = {} THEN n + 1 ELSE CHOOSE i \in bad : \A j \in bad : i <= j
        reached == {SectionOrder[i] : i \in 1..(stop - 1)}
        fixed == [sec \in DOMAIN obj |->
                    IF sec \in reached
                    THEN [k \in DOMAIN obj[sec] |->
                            IF ValidSetting(sec, k, obj[sec][k]) THEN obj[sec][k]
                            ELSE m.defaults[sec][k]]
                    ELSE obj[sec]]
    IN IF \E sec \in DOMAIN obj : ~IsDict(obj[sec])
       THEN [m EXCEPT !.settings = fixed, !.code = "VALIDATE_001"]
       ELSE SettingsManager_save_settings([m EXCEPT !.settings = fixed], io)

\* self.settings = self._merge_settings(self.default_settings, loaded) and
\* _validate_settings(); the sections the file leaves out stay shared
MergeAndValidate(m, loaded, io) ==
    SettingsManager_validate_settings(
        [m EXCEPT !.settings = SettingsManager_merge_settings(m.defaults, loaded),
                  !.shared = DOMAIN m.defaults \ DOMAIN loaded], io)

\* self.settings = self.default_settings.copy() and _save_settings()
CopyDefaults(m, io) ==
    SettingsManager_save_settings(
        [m EXCEPT !.settings = m.defaults, !.shared = DOMAIN m.defaults], io)

SettingsManager_load_settings(m, io) ==
    LET r == IF m.file.kind = "json"
             THEN MergeAndValidate(m, SettingsParse(m.file), io)
             ELSE CopyDefaults(m, io)
    IN IF r.code = "OK" THEN r ELSE [r EXCEPT !.code = "LOAD_001"]

SettingsManager_reset_settings(m, io) ==
    LET r == CopyDefaults(m, io)
    IN IF r.code = "OK" THEN [r EXCEPT !.restart_required = TRUE]
       ELSE [r EXCEPT !.code = "RESET_001"]

SettingsManager_import_settings(m, imported, io) ==
    IF imported.kind = "corrupt" THEN [m EXCEPT !.code = "IMPORT_001"]
    ELSE IF imported.kind # "json" THEN [m EXCEPT !.code = "IMPORT_002"]
    ELSE LET r == MergeAndValidate(m, SettingsParse(imported), io)
         IN IF r.code = "OK" THEN [r EXCEPT !.restart_required = TRUE]
            ELSE [r EXCEPT !.code = "IMPORT_002"]

\* export_settings: the file written, and the code; io = FALSE is an OSError
SettingsManager_export_settings(m, file, io) ==
    IF io THEN [file |-> SettingsDump(m.settings), code |-> "OK"]
    ELSE [file |-> file, code |-> "EXPORT_001"]

\* bool(value)
Truthy(v) == v.n # 0 \/ v.s # <<>>

\* settings[section][key] = value; a shared section is the default section
Assign(m, section, key, value) ==
    LET dict == IF section \in DOMAIN m.settings THEN m.settings[section]
                ELSE [x \in {} |-> PyNone]
        sec == Put(dict, key, value)
    IN [m EXCEPT !.settings = Put(m.settings, section, sec),
                 !.defaults = IF section \in m.shared
                              THEN Put(m.defaults, section, sec) ELSE m.defaults]

\* set_setting saves once, without the save that follows log_level
SettingsManager_set_setting_SaveOnce(m, section, key, value, io) ==
    IF section \in DOMAIN m.settings /\ ~IsDict(m.settings[section])
    THEN [m EXCEPT !.code = "SET_001"]
    ELSE
      LET set == Assign(m, section, key, value)
          saved == SettingsManager_save_settings(set, io)
      IN IF saved.code # "OK" THEN [saved EXCEPT !.code = "SET_001"]
         ELSE IF section = "advanced" /\ key = "developer_mode"
         THEN Assign(saved, "advanced", "log_level",
                     PyStr(IF Truthy(value) THEN <<"DEBUG">> ELSE <<"INFO">>))
         ELSE IF section = "appearance" /\ key \in {"theme", "ui_font"}
         THEN [saved EXCEPT !.restart_required = TRUE]
         ELSE saved

SettingsManager_set_setting(m, section, key, value, io) ==
    IF section \in DOMAIN m.settings /\ ~IsDict(m.settings[section])
    THEN [m EXCEPT !.code = "SET_001"]
    ELSE
      LET set == Assign(m, section, key, value)
          saved == SettingsManager_save_settings(set, io)
      IN IF saved.code # "OK" THEN [saved EXCEPT !.code = "SET_001"]
         ELSE IF section = "advanced" /\ key = "developer_mode"
         THEN SettingsManager_save_settings(
                  Assign(saved, "advanced", "log_level",
                         PyStr(IF Truthy(value) THEN <<"DEBUG">> ELSE <<"INFO">>)),
                  io)
         ELSE IF section = "appearance" /\ key \in {"theme", "ui_font"}
         THEN [saved EXCEPT !.restart_required = TRUE]
         ELSE saved

\* hash(v) raises TypeError for a list and for a dict
Hashable(v) == v.ty \notin {"list", "dict"}

\* get_setting: the code is "OK" with the value returned, the code of the
\* SanctifyError raised, or the name of another exception that gets out.
\* The KeyError handler runs outside the try, so what it raises is not caught.
SettingsManager_get_setting(m, section, key, default) ==
    LET found == /\ Hashable(section)
                 /\ section.s[1] \in DOMAIN m.settings
        handler ==
            IF default # PyNone THEN [code |-> "OK", value |-> default]
            ELSE IF ~Hashable(key) THEN [code |-> "TypeError", value |-> PyNone]
            ELSE [code |-> "OK",
                  value |-> IF /\ section.s[1] \in DOMAIN m.defaults
                               /\ key.s[1] \in DOMAIN m.defaults[section.s[1]]
                            THEN m.defaults[section.s[1]][key.s[1]] ELSE PyNone]
    IN IF ~Hashable(section) THEN [code |-> "GET_001", value |-> PyNone]
       ELSE IF ~found THEN handler
       ELSE IF ~IsDict(m.settings[section.s[1]]) \/ ~Hashable(key)
       THEN [code |-> "GET_001", value |-> PyNone]
       ELSE IF key.s[1] \in DOMAIN m.settings[section.s[1]]
       THEN [code |-> "OK", value |-> m.settings[section.s[1]][key.s[1]]]
       ELSE handler

\* the argument {} that validate_paths passes as the key
EmptyDict == [ty |-> "dict", s |-> <<>>, n |-> 0]

\* validate_paths: every exception, the SanctifyError of get_setting and of a
\* path that is no str included, leaves as PATH_VALIDATE_001; readable is the
\* set of keys whose path os.path and os.access find
SettingsManager_validate_paths(m, readable) ==
    LET raised == [code |-> "PATH_VALIDATE_001", results |-> [k \in {} |-> FALSE]]
    IN IF "paths" \notin DOMAIN m.defaults THEN raised
       ELSE LET got == SettingsManager_get_setting(m, PyStr(<<"paths">>),
                                                   EmptyDict, m.defaults.paths)
            IN IF got.code # "OK" \/ ~IsDict(got.value) THEN raised
               ELSE IF \E key \in DOMAIN got.value : got.value[key].ty # "str"
               THEN raised
               ELSE [code |-> "OK",
                     results |-> [key \in DOMAIN got.value |-> key \in readable]]

\* SettingsDialog.save_settings: one set_setting per widget, in the order of
\* the dict it builds, until one of them raises
RECURSIVE SettingsDialog_save_settings(_, _, _)
SettingsDialog_save_settings(m, widgets, io) ==
    IF widgets = <<>> THEN m
    ELSE LET w == Head(widgets)
             r == SettingsManager_set_setting(m, w[1], w[2], w[3], io)
         IN IF r.code # "OK" THEN r
            ELSE SettingsDialog_save_settings(r, Tail(widgets), io)

\* what the widgets of the dialog hold when Save is pressed
Widgets(language, developer_mode) ==
    <<<<"general", "startup_screen", PyStr(<<"Songs">>)>>,
      <<"general", "language", PyStr(language)>>,
      <<"appearance", "theme", PyStr(<<"Dark">>)>>,
      <<"paths", "bible_versions_dir", PyStr(<<"data/bibles">>)>>,
      <<"paths", "media_folder", PyStr(<<"data/media">>)>>,
      <<"paths", "songs_file", PyStr(<<"data/songs/songs.json">>)>>,
      <<"behavior", "auto_save_interval", PyInt(300)>>,
      <<"behavior", "default_playback_speed", PyFloat(10)>>,
      <<"advanced", "developer_mode", PyBool(developer_mode)>>,
      <<"advanced", "log_level",
        PyStr(IF developer_mode THEN <<"DEBUG">> ELSE <<"INFO">>)>>>>

\* no file, a file that is not JSON, a JSON object
NoFile == [kind |-> "missing", doc |-> [x \in {} |-> PyNone]]
CorruptFile == [kind |-> "corrupt", doc |-> [x \in {} |-> PyNone]]
JsonFile(doc) == [kind |-> "json", doc |-> doc]

\* settings files a user can have written or received
SettingsFiles ==
    {JsonFile([general |-> [language |-> ToJson(PyStr(<<"French">>))]]),
     JsonFile([general |-> [language |-> ToJson(PyStr(<<"Klingon">>))],
               behavior |-> [auto_save_interval |-> ToJson(PyInt(30)),
                             default_playback_speed |-> ToJson(PyInt(1))]]),
     JsonFile([paths |-> [media |-> ToJson(PyInt(5)),
                          media_folder |-> ToJson(PyStr(<<"m">>))]])}

ImportFiles ==
    SettingsFiles \cup {CorruptFile, JsonFile([general |-> ToJson(PyInt(5))])}

SetSettingArgs ==
    {<<"general", "language", PyStr(<<"Klingon">>)>>,
     <<"advanced", "developer_mode", PyBool(TRUE)>>,
     <<"plugins", "enabled", PyBool(TRUE)>>}

\* section and key arguments of get_setting: names, and a list
GetSettingArgs ==
    {PyStr(<<"general">>), PyStr(<<"language">>), PyStr(<<"nosuch">>),
     [ty |-> "list", s |-> <<"x">>, n |-> 0]}

\* the SettingsManager before __init__ calls load_settings
NewManager(file) == Manager([x \in {} |-> PyNone], DefaultSettings, {}, file, "OK")

TheManager ==
    [Manager(settings, default_settings, sharedSections, settingsFile, "OK")
        EXCEPT !.restart_required = restart_required]

ManagerCall(r) ==
    /\ settings' = r.settings
    /\ default_settings' = r.defaults
    /\ sharedSections' = r.shared
    /\ settingsFile' = r.file
    /\ restart_required' = r.restart_required
    /\ exported' = exported
    /\ path_validity' = path_validity
    /\ UNCHANGED <<focus, diskOk, nextUuid, songVars, themeVars,
                   presentationVars, mediaVars, tabVars, pairVars, liveVars,
                   previewVars, searchVars, uiVars>>

load_settings ==
    /\ focus = "settings"
    /\ \E io \in BOOLEAN : ManagerCall(SettingsManager_load_settings(TheManager, io))

set_setting ==
    /\ focus = "settings"
    /\ \E a \in SetSettingArgs, io \in BOOLEAN :
          ManagerCall(SettingsManager_set_setting(TheManager, a[1], a[2], a[3], io))

reset_settings ==
    /\ focus = "settings"
    /\ \E io \in BOOLEAN : ManagerCall(SettingsManager_reset_settings(TheManager, io))

import_settings ==
    /\ focus = "settings"
    /\ \E imported \in ImportFiles, io \in BOOLEAN :
          ManagerCall(SettingsManager_import_settings(TheManager, imported, io))

dialog_save_settings ==
    /\ focus = "settings"
    /\ \E io \in BOOLEAN :
          ManagerCall(SettingsDialog_save_settings(
                          TheManager, Widgets(<<"English">>, FALSE), io))

export_settings ==
    /\ focus = "settings"
    /\ \E io \in BOOLEAN :
          exported' = SettingsManager_export_settings(TheManager, exported, io).file
    /\ UNCHANGED <<focus, diskOk, nextUuid, songVars, themeVars, presentationVars,
                   mediaVars, tabVars, settings, default_settings, sharedSections,
                   settingsFile, restart_required, path_validity, pairVars,
                   liveVars, previewVars, searchVars, uiVars>>

\* import_settings of the file export_settings wrote
import_exported ==
    /\ focus = "settings"
    /\ \E io \in BOOLEAN :
          ManagerCall(SettingsManager_import_settings(TheManager, exported, io))

\* main and SettingsDialog.save_settings ask which paths are usable
validate_paths ==
    /\ focus = "settings"
    /\ \E readable \in SUBSET {"media", "media_folder"} :
          path_validity' = SettingsManager_validate_paths(TheManager, readable)
    /\ UNCHANGED <<focus, diskOk, nextUuid, songVars, themeVars, presentationVars,
                   mediaVars, tabVars, settings, default_settings, sharedSections,
                   settingsFile, restart_required, exported, pairVars, liveVars,
                   previewVars, searchVars, uiVars>>

SettingsNext ==
    \/ load_settings
    \/ set_setting
    \/ reset_settings
    \/ import_settings
    \/ dialog_save_settings

-----------------------------------------------------------------------------
(* Two processes, each with its own SongModel, on the same songs file:
   process 1 holds songs, process 2 holds otherSongs *)

InstanceSongs(i) == IF i = 1 THEN songs ELSE otherSongs

\* a call of process i that returned r; r.code = "OK" means its save wrote
InstanceCall(i, r) ==
    /\ songs' = IF i = 1 THEN r.list ELSE songs
    /\ otherSongs' = IF i = 2 THEN r.list ELSE otherSongs
    /\ songFile' = r.file
    /\ lastSaver' = IF r.code = "OK" THEN i ELSE lastSaver
    /\ UNCHANGED <<focus, diskOk, nextUuid, themeVars, presentationVars, mediaVars,
                   tabVars, settingsVars, liveVars, previewVars, searchVars, uiVars>>

instance_add_song ==
    /\ focus = "song models"
    /\ \E i \in {1, 2}, song_data \in SongInputs, now \in Times :
          /\ Len(InstanceSongs(i)) < MaxSongs
          /\ InstanceCall(i, SongModel_add_song(InstanceSongs(i), songFile,
                                                song_data, now, diskOk))

instance_update_song ==
    /\ focus = "song models"
    /\ \E i \in {1, 2}, old_title \in SongTitleArgs, song_data \in SongInputs,
          now \in Times :
          InstanceCall(i, SongModel_update_song(InstanceSongs(i), songFile,
                                                old_title, song_data, now, diskOk))

instance_delete_song ==
    /\ focus = "song models"
    /\ \E i \in {1, 2}, title \in SongTitleArgs :
          InstanceCall(i, SongModel_delete_song(InstanceSongs(i), songFile, title,
                                                diskOk))

\* process i starts again: SongModel.__init__ loads the file
instance_load_songs ==
    /\ focus = "song models"
    /\ \E i \in {1, 2} :
          InstanceCall(i, Result(SongModel_load_songs(songFile), songFile, "LOADED"))

SongModelsNext ==
    \/ instance_add_song
    \/ instance_update_song
    \/ instance_delete_song
    \/ instance_load_songs

-----------------------------------------------------------------------------
(* LiveOutput.  What is on screen is the text of content_label when there
   is no media player, and the file of the media player otherwise; the
   style of the text is left out. *)

\* str.endswith
EndsWith(str, suffix) ==
    /\ Len(str) >= Len(suffix)
    /\ SubSeq(str, Len(str) - Len(suffix) + 1, Len(str)) = suffix

\* the files os.path.exists finds
LiveFiles == {<<"p", ".", "J", "P", "G">>, <<"c", ".", "m", "p", "4">>}

\* str.endswith with a tuple of suffixes
EndsWithAny(str, suffixes) == \E suffix \in suffixes : EndsWith(str, suffix)

\* setMedia: "video" if file_path.lower().endswith((".mp4", ".avi", ".mov"))
LiveOutput_content_type(file_path) ==
    IF EndsWithAny(Lower(file_path), {<<".", "m", "p", "4">>, <<".", "a", "v", "i">>,
                                      <<".", "m", "o", "v">>})
    THEN "video" ELSE "image"

\* setText(text, style) up to the label: QLabel.setText(None) raises, after
\* the media player is gone and the fields are assigned
LiveOutput_setText(text) ==
    /\ media_player' = PyNone
    /\ current_content' = text
    /\ current_type' = "text"
    /\ content_label' = IF text = PyNone THEN content_label ELSE text.s

OutputCall ==
    UNCHANGED <<focus, diskOk, nextUuid, songVars, themeVars, presentationVars,
                mediaVars, tabVars, settingsVars, pairVars, previewVars,
                searchVars, uiVars>>

setText ==
    /\ focus = "live output"
    /\ \E text \in {<<"h", "i">>} : LiveOutput_setText(PyStr(text))
    /\ blanked' = FALSE
    /\ UNCHANGED zoom_level
    /\ OutputCall

setMedia ==
    /\ focus = "live output"
    /\ \E file_path \in LiveFiles \cup {<<"g", "o", "n", "e">>} :
          IF file_path \notin LiveFiles
          THEN UNCHANGED <<content_label, media_player, current_content,
                           current_type>>
          ELSE /\ media_player' = PyStr(file_path)
               /\ current_content' = PyStr(file_path)
               /\ current_type' = LiveOutput_content_type(file_path)
               /\ UNCHANGED content_label
    /\ blanked' = FALSE
    /\ UNCHANGED zoom_level
    /\ OutputCall

set_blank ==
    /\ focus = "live output"
    /\ media_player' = PyNone
    /\ content_label' = <<>>
    /\ zoom_level' = 10
    /\ blanked' = TRUE
    /\ UNCHANGED <<current_content, current_type>>
    /\ OutputCall

\* zoom_in and zoom_out after the new zoom_level is assigned
Redisplay ==
    /\ IF current_type = "text" THEN LiveOutput_setText(current_content)
       ELSE UNCHANGED <<content_label, media_player, current_content, current_type>>
    /\ UNCHANGED blanked
    /\ OutputCall

\* min(zoom_level + 0.1, 2.0) and max(zoom_level - 0.1, 0.5), in tenths
ZoomedIn_Unbounded(level) == IF level < 22 THEN level + 1 ELSE level

ZoomedIn(level) == IF level + 1 < 20 THEN level + 1 ELSE 20

ZoomedOut(level) == IF level - 1 > 5 THEN level - 1 ELSE 5

zoom_in ==
    /\ focus = "live output"
    /\ zoom_level' = ZoomedIn(zoom_level)
    /\ Redisplay

zoom_out ==
    /\ focus = "live output"
    /\ zoom_level' = ZoomedOut(zoom_level)
    /\ Redisplay

LiveOutputNext == setText \/ setMedia \/ set_blank \/ zoom_in \/ zoom_out

-----------------------------------------------------------------------------
(* PreviewCanvas of the same main window, with the MediaPlayer it creates
   for an image or a video.  The Media tab is the current tab; what its
   selected item holds under "file_path" is the input of refresh_preview. *)

\* the files of the media library: one of every supported format
PreviewFiles == {<<"f">> \o ext : ext \in UNION {SUPPORTED_FORMATS[c] : c \in DOMAIN SUPPORTED_FORMATS}}

\* refresh_preview: "video" if content.lower().endswith((".mp4", ".avi"))
PreviewCanvas_content_type(content) ==
    IF EndsWithAny(Lower(content), {<<".", "m", "p", "4">>, <<".", "a", "v", "i">>})
    THEN "video" ELSE "image"

\* MediaPlayer.setMedia: file_path.lower().endswith((".jpg", ".png", ".bmp"))
MediaPlayer_is_image(file_path) ==
    EndsWithAny(Lower(file_path), {<<".", "j", "p", "g">>, <<".", "p", "n", "g">>,
                                   <<".", "b", "m", "p">>})

\* the MediaPlayer after __init__ and after setMedia of a file that exists
NewMediaPlayer == [current_media |-> PyNone, is_image |-> FALSE]

MediaPlayer_setMedia(file_path) ==
    [current_media |-> PyStr(file_path), is_image |-> MediaPlayer_is_image(file_path)]

\* set_content(content, style, content_type) up to the fields and the player
PreviewCanvas_set_content(content, content_type) ==
    /\ preview_type' = content_type
    /\ preview_player' =
          IF content_type = "text" THEN PyNone
          ELSE IF content \in PreviewFiles THEN MediaPlayer_setMedia(content)
          ELSE NewMediaPlayer

\* refresh_preview with the item the Media tab has selected; <<>> is no item
PreviewCanvas_refresh_preview(file_path) ==
    IF file_path # <<>>
    THEN PreviewCanvas_set_content(file_path, PreviewCanvas_content_type(file_path))
    ELSE PreviewCanvas_set_content(<<"No content selected">>, "text")

PreviewCall ==
    UNCHANGED <<focus, diskOk, nextUuid, songVars, themeVars, presentationVars,
                mediaVars, tabVars, settingsVars, pairVars, liveVars, searchVars, uiVars>>

PreviewSelection == PreviewFiles \cup {<<>>, <<"g", "o", "n", "e", ".", "m", "o", "v">>}

refresh_preview ==
    /\ focus = "live output"
    /\ \E file_path \in PreviewSelection : PreviewCanvas_refresh_preview(file_path)
    /\ UNCHANGED preview_zoom_level
    /\ PreviewCall

preview_zoom_in ==
    /\ focus = "live output"
    /\ preview_zoom_level' = ZoomedIn(preview_zoom_level)
    /\ \E file_path \in PreviewSelection : PreviewCanvas_refresh_preview(file_path)
    /\ PreviewCall

preview_zoom_out ==
    /\ focus = "live output"
    /\ preview_zoom_level' = ZoomedOut(preview_zoom_level)
    /\ \E file_path \in PreviewSelection : PreviewCanvas_refresh_preview(file_path)
    /\ PreviewCall

clear_preview ==
    /\ focus = "live output"
    /\ preview_player' = PyNone
    /\ preview_zoom_level' = 10
    /\ UNCHANGED preview_type
    /\ PreviewCall

PreviewCanvasNext == refresh_preview \/ preview_zoom_in \/ preview_zoom_out \/ clear_preview

-----------------------------------------------------------------------------
(* ui/themes_ui.py: the ThemeModel of the Themes tab, on the same file *)

\* ThemeModel._validate_theme of ui/themes_ui.py
UiThemeModel_validate_theme(theme) ==
    /\ theme.id.ty = "str"
    /\ theme.name.ty = "str" /\ Strip(theme.name.s) # <<>>
    /\ theme.context \in {PyStr(<<"Songs">>), PyStr(<<"Scriptures">>),
                          PyStr(<<"Presentations">>)}
    /\ theme.alignment \in {PyStr(<<"Centered">>), PyStr(<<"Justified">>),
                            PyStr(<<"Left">>), PyStr(<<"Right">>)}
    /\ theme.font_color.ty = "str"
    /\ theme.background_color.ty = "str"
    /\ theme.font_size.ty \in {"int", "bool"} /\ theme.font_size.n >= 8
    /\ theme.font_family.ty = "str"
    /\ theme.tags.ty = "str"
    /\ theme.created_at.ty = "str"
    /\ theme.updated_at.ty = "str"

\* _load_themes of ui/themes_ui.py on a file holding a JSON array of objects
UiThemeModel_load_themes(file) ==
    SelectSeq(ThemesParse(file), UiThemeModel_validate_theme)

\* _save_themes of ui/themes_ui.py: an error of open() is logged, not raised
UiThemeModel_save_themes(list, file, io) ==
    Result(list, IF io THEN ThemesDump(list) ELSE file, "OK")

\* the record save_theme validates: the defaults fill the keys left out
UiThemeModel_save_candidate(theme_data, uuid, now) ==
    [id |-> Uuid(uuid),
     name |-> theme_data.name,
     context |-> theme_data.context,
     alignment |-> theme_data.alignment,
     font_color |-> theme_data.font_color,
     background_color |-> IF theme_data.background_color.ty = "absent"
                          THEN PyStr(<<"#", "f">>)
                          ELSE theme_data.background_color,
     font_size |-> IF theme_data.font_size.ty = "absent" THEN PyInt(18)
                   ELSE theme_data.font_size,
     font_family |-> IF theme_data.font_family.ty = "absent"
                     THEN PyStr(<<"Arial">>)
                     ELSE theme_data.font_family,
     tags |-> IF theme_data.tags.ty = "absent" THEN PyStr(<<>>)
              ELSE theme_data.tags,
     created_at |-> Isoformat(now),
     updated_at |-> Isoformat(now)]

\* save_theme of ui/themes_ui.py; "None" is the return of None, and a name
\* that is no str has no strip()
UiThemeModel_save_theme(list, file, theme_data, uuid, now, io) ==
    IF theme_data.name.ty \notin {"str", "absent"}
    THEN Result(list, file, "AttributeError")
    ELSE IF Strip(theme_data.name.s) = <<>>
    THEN Result(list, file, "None")
    ELSE IF NameTaken(list, theme_data.name.s)
    THEN Result(list, file, "None")
    ELSE LET candidate == UiThemeModel_save_candidate(theme_data, uuid, now)
         IN IF ~UiThemeModel_validate_theme(candidate)
            THEN Result(list, file, "None")
            ELSE UiThemeModel_save_themes(Append(list, candidate), file, io)

\* update_theme of ui/themes_ui.py: the updated theme moves to the end
UiThemeModel_update_theme(list, file, theme_id, theme_data, now, io) ==
    IF \A i \in 1..Len(list) : list[i].id # theme_id
    THEN Result(list, file, "False")
    ELSE LET k == CHOOSE i \in 1..Len(list) :
                      /\ list[i].id = theme_id
                      /\ \A j \in 1..(i - 1) : list[j].id # theme_id
             theme == list[k]
             rest == [i \in 1..(Len(list) - 1) |->
                          IF i < k THEN list[i] ELSE list[i + 1]]
             updated_theme == UpdateCandidate(theme, theme_data, now)
         IN IF theme_data.name.ty \notin {"str", "absent"}
            THEN Result(list, file, "AttributeError")
            ELSE IF /\ Strip(theme_data.name.s) # <<>>
                    /\ Lower(theme_data.name.s) # Lower(theme.name.s)
                    /\ NameTaken(rest, theme_data.name.s)
            THEN Result(list, file, "False")
            ELSE IF ~UiThemeModel_validate_theme(updated_theme)
            THEN Result(list, file, "False")
            ELSE UiThemeModel_save_themes(Append(rest, updated_theme), file, io)

\* theme_data of the Themes tab, as GoodTheme and four variations of it
UiThemeInputs ==
    {GoodTheme(PyStr(TitleA)),
     [GoodTheme(PyStr(TitleACopy)) EXCEPT !.alignment = PyStr(<<"Justified">>)],
     [GoodTheme(PyStr(TitleACopy)) EXCEPT !.font_color = PyStr(<<"r", "e", "d">>)],
     [GoodTheme(PyStr(TitleACopy)) EXCEPT !.font_size = PyInt(5)],
     [GoodTheme(PyStr(TitleACopy)) EXCEPT !.font_family = Absent],
     GoodTheme(PyInt(1))}

UiThemeUpdateInputs ==
    {ThemeUpdate("alignment", PyStr(<<"Justified">>)),
     ThemeUpdate("font_size", PyInt(5)),
     ThemeUpdate("name", PyStr(TitleUpperA))}

UiThemeCall(r, used) ==
    /\ uiThemes' = r.list
    /\ themeFile' = r.file
    /\ nextUuid' = nextUuid + used
    /\ UNCHANGED <<focus, diskOk, songVars, themes, deletedThemes,
                   presentationVars, mediaVars, tabVars, settingsVars, pairVars,
                   liveVars, previewVars, searchVars>>

ui_save_theme ==
    /\ focus = "themes"
    /\ Len(uiThemes) < MaxThemes /\ nextUuid <= MaxUuids
    /\ \E theme_data \in UiThemeInputs, now \in Times :
          LET r == UiThemeModel_save_theme(uiThemes, themeFile, theme_data,
                                           nextUuid, now, diskOk)
          IN UiThemeCall(r, IF theme_data.name.ty = "str" THEN 1 ELSE 0)

ui_update_theme ==
    /\ focus = "themes"
    /\ \E theme_id \in UuidArgs, theme_data \in UiThemeUpdateInputs,
          now \in Times :
          UiThemeCall(UiThemeModel_update_theme(uiThemes, themeFile, theme_id,
                                                theme_data, now, diskOk), 0)

\* a new Themes tab: ThemeModel() runs _load_themes
ui_load_themes ==
    /\ focus = "themes"
    /\ UiThemeCall(Result(UiThemeModel_load_themes(themeFile), themeFile, "OK"), 0)

UiThemeNext == ui_save_theme \/ ui_update_theme \/ ui_load_themes

-----------------------------------------------------------------------------
(* Specifications *)

Focuses == {"songs", "themes", "presentations", "media", "songs tab", "settings",
            "song models", "live output"}

\* every repository starts empty, its file created by the first load
Init ==
    /\ focus \in Focuses
    /\ diskOk \in IF focus = "presentations" THEN {TRUE} ELSE BOOLEAN
    /\ nextUuid = 1
    /\ songs = <<>>
    /\ songFile = SongsDump(<<>>)
    /\ themes = <<>>
    /\ themeFile = ThemesDump(<<>>)
    /\ uiThemes = <<>>
    /\ deletedThemes = {}
    /\ presentations = <<>>
    /\ presentationFile = PresentationsDump(<<>>)
    /\ attached \in IF focus = "presentations"
                    THEN {[theme_model |-> FALSE, media_model |-> FALSE],
                          [theme_model |-> TRUE, media_model |-> FALSE],
                          [theme_model |-> TRUE, media_model |-> TRUE]}
                    ELSE {[theme_model |-> FALSE, media_model |-> FALSE]}
    /\ media = <<>>
    /\ mediaFile = MediaDump(<<>>)
    /\ mediaDisk = {}
    /\ mediaDirAbs \in IF focus = "media" THEN BOOLEAN ELSE {FALSE}
    /\ hymns \in IF focus = "songs tab" THEN HymnFiles ELSE {<<>>}
    /\ LET r == SongsTab_load_songs(TabDump(<<>>), hymns, diskOk)
       IN /\ tabSongs = r.list /\ tabFile = r.file /\ tabRow = r.row
          /\ search_results = [i \in 1..Len(r.list) |-> i]
    /\ search_input = <<>>
    /\ tag_filter = AllTags
    /\ \E file \in IF focus = "settings"
                    THEN {NoFile, CorruptFile} \cup SettingsFiles ELSE {NoFile} :
          LET r == SettingsManager_load_settings(NewManager(file), TRUE)
          IN /\ settings = r.settings
             /\ default_settings = r.defaults
             /\ sharedSections = r.shared
             /\ settingsFile = r.file
             /\ restart_required = r.restart_required
    /\ exported = NoFile
    /\ path_validity = [code |-> "unset", results |-> [k \in {} |-> FALSE]]
    /\ otherSongs = <<>>
    /\ lastSaver = 0
    /\ content_label = <<"Live Output">>
    /\ media_player = PyNone
    /\ current_content = PyNone
    /\ current_type = "text"
    /\ zoom_level = 10
    /\ blanked = FALSE
    /\ preview_zoom_level = 10
    /\ preview_type = "unset"
    /\ preview_player = PyNone


Next ==
    \/ SongNext \/ ThemeNext \/ PresentationNext \/ MediaNext \/ SongsTabNext
    \/ SettingsNext
    \/ SongModelsNext
    \/ add_media_stopped
    \/ LiveOutputNext
    \/ PreviewCanvasNext
    \/ start_on_songs_file \/ start_on_themes_file
    \/ export_settings \/ import_exported
    \/ perform_search \/ list_keypress
    \/ UiThemeNext
    \/ validate_paths

Spec == Init /\ [][Next]_vars

\* the runs in which one component alone takes steps
SongSpec == Init /\ [][SongNext]_vars
ThemeSpec == Init /\ [][ThemeNext]_vars
MediaSpec == Init /\ [][MediaNext]_vars
SongsTabSpec == Init /\ [][SongsTabNext]_vars
SettingsSpec == Init /\ [][SettingsNext]_vars
SongModelsSpec == Init /\ [][SongModelsNext]_vars
LiveOutputSpec == Init /\ [][LiveOutputNext]_vars
SearchSpec == Init /\ [][SongsTabNext \/ perform_search \/ list_keypress]_vars
ExportSpec == Init /\ [][set_setting \/ export_settings \/ import_exported]_vars
StartSpec ==
    Init /\ [][SongNext \/ ThemeNext \/ start_on_songs_file \/ start_on_themes_file]_vars
DisplaySpec == Init /\ [][LiveOutputNext \/ PreviewCanvasNext]_vars
PathsSpec == Init /\ [][load_settings \/ set_setting \/ import_settings \/ validate_paths]_vars
ThemeModelsSpec == Init /\ [][create_theme \/ load_themes \/ UiThemeNext]_vars
MediaStopSpec == Init /\ [][MediaNext \/ add_media_stopped]_vars

\* the three repositories of main.py, without the media library and the tab
RepositorySpec == Init /\ [][SongNext \/ ThemeNext \/ PresentationNext]_vars
ModelsSpec == Init /\ [][SongNext \/ ThemeNext \/ PresentationNext \/ MediaNext]_vars
PresentationSpec ==
    Init
    /\ [][\/ create_theme \/ update_theme \/ delete_theme
          \/ PresentationNext]_vars

-----------------------------------------------------------------------------
(* C1: no two songs of SongModel have titles equal under lower() *)

C1_SongTitlesUnique ==
    \A i, j \in 1..Len(songs) :
        i # j => Lower(songs[i].title.s) # Lower(songs[j].title.s)

C1_Witness ==
    /\ Len(songs) = 2
    /\ songs[1].title.s = TitleACopy
    /\ songs[2].title.s = TitleUpperA

(* C2: no two presentations of PresentationModel have names equal under
   lower().  import_from_ppt appends without looking at the names, so this
   is violated. *)

C2_PresentationNamesUnique ==
    \A i, j \in 1..Len(presentations) :
        i # j => Lower(presentations[i].name.s) # Lower(presentations[j].name.s)

(* C3: no two themes of ThemeModel have names equal under lower() *)

C3_ThemeNamesUnique ==
    \A i, j \in 1..Len(themes) :
        i # j => Lower(themes[i].name.s) # Lower(themes[j].name.s)

C3_Witness ==
    /\ focus = "themes"
    /\ Len(themes) = 2
    /\ themes[1].name.s = TitleA \o CopySuffix
    /\ themes[2].name.s = TitleUpperA

(* C6: what a fresh SongModel or ThemeModel loads from the file is the list
   of the model that saved it: same records, same order, every field
   equal.  The file is written by every successful mutation, and no write
   succeeds when the disk refuses writes. *)

C6_SaveLoadRoundTrip ==
    diskOk =>
        /\ SongModel_load_songs(songFile) = songs
        /\ ThemeModel_load_themes(themeFile) = themes

(* C7: a candidate record that fails validation is rejected by add_song,
   update_song, create_theme, update_theme, create_presentation and
   update_presentation: the call raises, and the list and the file are
   what they were. *)

Rejected(r, list, file) == r.code # "OK" /\ r.list = list /\ r.file = file

C7_InvalidCandidateRejected ==
    /\ \A song_data \in SongInputs, now \in Times :
          ~SongModel_validate_song(SongModel_add_candidate(song_data, now))
              => Rejected(SongModel_add_song(songs, songFile, song_data, now, diskOk),
                          songs, songFile)
    /\ \A old_title \in SongTitleArgs, song_data \in SongInputs, now \in Times :
          LET k == SongModel_get_song_by_title(songs, old_title) IN
          (/\ k # 0
           /\ ~SongModel_validate_song(
                   SongModel_update_candidate(songs[k], song_data, now)))
              => Rejected(SongModel_update_song(songs, songFile, old_title,
                                                song_data, now, diskOk),
                          songs, songFile)
    /\ \A a \in ThemeInputs, now \in Times :
          ~ThemeModel_validate_theme(ThemeModel_create_candidate(a, nextUuid, now))
              => Rejected(ThemeModel_create_theme(themes, themeFile, a, nextUuid,
                                                  now, diskOk),
                          themes, themeFile)
    /\ \A theme_id \in UuidArgs, updated_data \in ThemeUpdateInputs, now \in Times :
          LET k == GetById(themes, theme_id) IN
          (/\ k # 0
           /\ ~ThemeModel_validate_theme(
                   UpdateCandidate(themes[k], updated_data, now)))
              => Rejected(ThemeModel_update_theme(themes, themeFile, theme_id,
                                                  updated_data, now, diskOk),
                          themes, themeFile)
    /\ \A a \in PresentationInputs, now \in Times :
          ~PresentationModel_validate_presentation(
               PresentationModel_create_candidate(a, nextUuid, now), PresentationEnv)
              => Rejected(PresentationModel_create_presentation(
                              presentations, presentationFile, a, PresentationEnv,
                              nextUuid, now, diskOk),
                          presentations, presentationFile)
    /\ \A presentation_id \in UuidArgs, updated_data \in PresentationUpdateInputs,
          now \in Times :
          LET k == GetById(presentations, presentation_id) IN
          (/\ k # 0
           /\ ~PresentationModel_validate_presentation(
                   UpdateCandidate(presentations[k], updated_data, now),
                   PresentationEnv))
              => Rejected(PresentationModel_update_presentation(
                              presentations, presentationFile, presentation_id,
                              updated_data, PresentationEnv, now, diskOk),
                          presentations, presentationFile)

\* a stored song for which update_song turns down tuple sections
C7_Witness ==
    /\ Len(songs) = 2
    /\ diskOk
    /\ SongModel_update_song(songs, songFile, TitleA,
                             SongData(PyStr(TitleACopy), TupleSections,
                                      PyStr(<<"hymn">>)), 1, diskOk).code
           = "UPDATE_003"

(* C8: duplicating a record and then deleting the copy leaves the list as
   it was before the duplicate, for songs, themes and presentations. *)

C8_DuplicateThenDelete ==
    /\ \A title \in SongTitleArgs, now \in Times :
          LET d == SongModel_duplicate_song(songs, songFile, title, now, diskOk) IN
          d.code = "OK" =>
              LET e == SongModel_delete_song(d.list, d.file, d.list[Len(d.list)].title.s, diskOk)
              IN e.code = "OK" /\ e.list = songs /\ e.file = songFile
    /\ \A theme_id \in UuidArgs, now \in Times :
          LET d == ThemeModel_duplicate_theme(themes, themeFile, theme_id,
                                              nextUuid, now, diskOk) IN
          d.code = "OK" =>
              LET e == ThemeModel_delete_theme(d.list, d.file, d.list[Len(d.list)].id, diskOk)
              IN e.code = "OK" /\ e.list = themes /\ e.file = themeFile
    /\ \A presentation_id \in UuidArgs, now \in Times :
          LET d == PresentationModel_duplicate_presentation(
                       presentations, presentationFile, presentation_id,
                       nextUuid, now, diskOk) IN
          d.code = "OK" =>
              LET e == PresentationModel_delete_presentation(
                           d.list, d.file, d.list[Len(d.list)].id, diskOk)
              IN /\ e.code = "OK" /\ e.list = presentations
                 /\ e.file = presentationFile

\* a presentation and its copy, which delete_presentation can remove again
C8_Witness ==
    /\ Len(presentations) = 2
    /\ presentations[2].name.s = presentations[1].name.s \o CopySuffix
    /\ PresentationModel_delete_presentation(
           presentations, presentationFile, presentations[2].id, diskOk).list
           = <<presentations[1]>>

(* C9: with a ThemeModel attached, every presentation references the id of
   a theme in the ThemeModel.  delete_theme does not look at the
   presentations, so this is violated. *)

C9_ThemeReferencesExist ==
    attached.theme_model =>
        \A i \in 1..Len(presentations) :
            GetById(themes, presentations[i].theme) # 0

(* C9 as amended: with a ThemeModel attached, every presentation references
   the id of a theme that is in the ThemeModel or that delete_theme has
   removed from it. *)

C9_ThemeReferencesExistOrDeleted ==
    attached.theme_model =>
        \A i \in 1..Len(presentations) :
            \/ GetById(themes, presentations[i].theme) # 0
            \/ presentations[i].theme \in deletedThemes

C9_Witness ==
    /\ attached.theme_model
    /\ Len(themes) = 1
    /\ Len(presentations) = 1
    /\ presentations[1].theme \in deletedThemes
-----------------------------------------------------------------------------
(* C5: at most one media record has is_logo true, and a set_logo(id) that
   returns leaves is_logo true on the record with that id and on no other *)

Logos(list) == {i \in 1..Len(list) : list[i].is_logo = PyBool(TRUE)}

C5_AtMostOneLogo ==
    /\ Cardinality(Logos(media)) <= 1
    /\ \A media_id \in UuidArgs :
          LET r == MediaModel_set_logo(media, mediaFile, mediaDisk, media_id,
                                       diskOk)
          IN r.code = "OK" =>
                /\ Cardinality(Logos(r.list)) = 1
                /\ \A i \in 1..Len(r.list) :
                      (i \in Logos(r.list)) <=> (r.list[i].id = media_id)

\* the logo has been duplicated and the copy is not a logo
C5_Witness ==
    /\ Len(media) = 2
    /\ media[1].is_logo = PyBool(TRUE)
    /\ media[2].is_logo = PyBool(FALSE)
    /\ media[2].name.s = <<"p">> \o CopySuffix \o <<".", "J", "P", "G">>

-----------------------------------------------------------------------------
(* C10: the path of every media record names a file under the media
   directory *)

C10_MediaFilesExist ==
    \A i \in 1..Len(media) : media[i].path.s \in mediaDisk


-----------------------------------------------------------------------------
(* C4: the list the Songs tab has written to SONGS_FILE holds no two songs
   whose titles are equal under lower() *)

C4_TabTitlesUnique ==
    \A i, j \in 1..Len(tabFile) :
        i # j => Lower(tabFile[i].title.s) # Lower(tabFile[j].title.s)

-----------------------------------------------------------------------------
(* C11: a successful update_song, update_theme, update_presentation or
   update_media leaves the updated record as the last element of the list,
   the other records in the order they had, the length of the list as it
   was, and the file holding that list; a successful add_song,
   create_theme, create_presentation or add_media appends one record at
   the end; a successful delete removes the targeted record and no
   other. *)

Without(list, k) == SubSeq(list, 1, k - 1) \o SubSeq(list, k + 1, Len(list))

MovedToEnd(before, after, k, updated) ==
    /\ Len(after) = Len(before)
    /\ after[Len(after)] = updated
    /\ SubSeq(after, 1, Len(after) - 1) = Without(before, k)

AppendedTo(before, after) ==
    /\ Len(after) = Len(before) + 1
    /\ SubSeq(after, 1, Len(before)) = before

C11_UpdateMovesToEnd ==
    /\ \A old_title \in SongTitleArgs, song_data \in SongInputs, now \in Times :
          LET k == SongModel_get_song_by_title(songs, old_title)
              r == SongModel_update_song(songs, songFile, old_title, song_data,
                                         now, diskOk)
          IN r.code = "OK" =>
                /\ MovedToEnd(songs, r.list, k,
                              SongModel_update_candidate(songs[k], song_data, now))
                /\ r.file = SongsDump(r.list)
    /\ \A theme_id \in UuidArgs, updated_data \in ThemeUpdateInputs, now \in Times :
          LET k == GetById(themes, theme_id)
              r == ThemeModel_update_theme(themes, themeFile, theme_id,
                                           updated_data, now, diskOk)
          IN r.code = "OK" =>
                /\ MovedToEnd(themes, r.list, k,
                              UpdateCandidate(themes[k], updated_data, now))
                /\ r.list[Len(r.list)].id = theme_id
                /\ r.file = ThemesDump(r.list)
    /\ \A presentation_id \in UuidArgs, updated_data \in PresentationUpdateInputs,
          now \in Times :
          LET k == GetById(presentations, presentation_id)
              r == PresentationModel_update_presentation(
                       presentations, presentationFile, presentation_id,
                       updated_data, PresentationEnv, now, diskOk)
          IN r.code = "OK" =>
                /\ MovedToEnd(presentations, r.list, k,
                              UpdateCandidate(presentations[k], updated_data, now))
                /\ r.list[Len(r.list)].id = presentation_id
                /\ r.file = PresentationsDump(r.list)
    /\ \A media_id \in UuidArgs, media_data \in MediaUpdateInputs, now \in Times :
          LET k == GetById(media, media_id)
              r == MediaModel_update_media(media, mediaFile, mediaDisk, media_id,
                                           media_data, mediaDirAbs, now, diskOk)
          IN r.code = "OK" =>
                /\ MovedToEnd(media, r.list, k, r.list[Len(r.list)])
                /\ r.list[Len(r.list)].id = media_id
                /\ [r.list[Len(r.list)] EXCEPT !.path = media[k].path]
                       = MediaModel_update_candidate(media[k], media_data, now)
                /\ r.file = MediaDump(r.list)
    /\ \A song_data \in SongInputs, now \in Times :
          LET r == SongModel_add_song(songs, songFile, song_data, now, diskOk)
          IN r.code = "OK" =>
                AppendedTo(songs, r.list) /\ r.file = SongsDump(r.list)
    /\ \A a \in ThemeInputs, now \in Times :
          LET r == ThemeModel_create_theme(themes, themeFile, a, nextUuid, now,
                                           diskOk)
          IN r.code = "OK" =>
                AppendedTo(themes, r.list) /\ r.file = ThemesDump(r.list)
    /\ \A a \in PresentationInputs, now \in Times :
          LET r == PresentationModel_create_presentation(
                       presentations, presentationFile, a, PresentationEnv,
                       nextUuid, now, diskOk)
          IN r.code = "OK" =>
                /\ AppendedTo(presentations, r.list)
                /\ r.file = PresentationsDump(r.list)
    /\ \A a \in MediaInputs, now \in Times :
          LET r == MediaModel_add_media(media, mediaFile, mediaDisk, a, Sources,
                                        nextUuid, now, diskOk)
          IN r.code = "OK" =>
                AppendedTo(media, r.list) /\ r.file = MediaDump(r.list)
    /\ \A title \in SongTitleArgs :
          LET r == SongModel_delete_song(songs, songFile, title, diskOk)
          IN r.code = "OK" =>
                /\ r.list = Without(songs, SongModel_get_song_by_title(songs, title))
                /\ r.file = SongsDump(r.list)
    /\ \A theme_id \in UuidArgs :
          LET r == ThemeModel_delete_theme(themes, themeFile, theme_id, diskOk)
          IN r.code = "OK" =>
                /\ r.list = Without(themes, GetById(themes, theme_id))
                /\ r.file = ThemesDump(r.list)
    /\ \A presentation_id \in UuidArgs :
          LET r == PresentationModel_delete_presentation(
                       presentations, presentationFile, presentation_id, diskOk)
          IN r.code = "OK" =>
                /\ r.list = Without(presentations,
                                    GetById(presentations, presentation_id))
                /\ r.file = PresentationsDump(r.list)
    /\ \A media_id \in UuidArgs :
          LET r == MediaModel_delete_media(media, mediaFile, mediaDisk, media_id,
                                           diskOk)
          IN r.code = "OK" =>
                /\ r.list = Without(media, GetById(media, media_id))
                /\ r.file = MediaDump(r.list)

\* update_theme has moved the older of two themes behind the newer one
C11_Witness ==
    /\ focus = "themes"
    /\ Len(themes) = 2
    /\ themes[1].id = Uuid(2)
    /\ themes[2].id = Uuid(1)
    /\ themeFile = ThemesDump(themes)

-----------------------------------------------------------------------------
(* C12: after every successful load_settings, set_setting, reset_settings
   and import_settings the settings file holds the in-memory settings *)

Synchronous(r) == r.code = "OK" => r.file = SettingsDump(r.settings)

C12_FileEqualsSettings ==
    \A io \in BOOLEAN :
        /\ Synchronous(SettingsManager_load_settings(TheManager, io))
        /\ Synchronous(SettingsManager_reset_settings(TheManager, io))
        /\ \A a \in SetSettingArgs :
              Synchronous(SettingsManager_set_setting(TheManager, a[1], a[2], a[3], io))
        /\ \A imported \in ImportFiles :
              Synchronous(SettingsManager_import_settings(TheManager, imported, io))

\* set_setting has switched developer_mode on, and log_level with it, in
\* settings whose language came from a file
C12_Witness ==
    /\ focus = "settings"
    /\ settings.advanced.log_level = PyStr(<<"DEBUG">>)
    /\ settings.general.language = PyStr(<<"French">>)
    /\ settingsFile = SettingsDump(settings)

-----------------------------------------------------------------------------
(* C13: after load_settings has read a settings file, every section and key
   of the defaults is in the settings, with the value of the file where
   the file supplies the key and the default value otherwise; when the
   file is missing or is not JSON, the settings are the defaults and the
   file holds them.  The files are the one the manager wrote and the ones
   a user can have put in its place.  Stated like this it is violated:
   _validate_settings replaces a value of the file that is outside its
   domain. *)

Supplies(loaded, sec, k) ==
    sec \in DOMAIN loaded /\ IsDict(loaded[sec]) /\ k \in DOMAIN loaded[sec]

InDomain(sec, k, v) ==
    CASE <<sec, k>> = <<"general", "startup_screen">> ->
            v \in {PyStr(<<x>>) : x \in {"Songs", "Scriptures", "Media",
                                         "Presentations", "Themes"}}
      [] <<sec, k>> = <<"general", "language">> ->
            v \in {PyStr(<<x>>) : x \in {"English", "Spanish", "French", "German"}}
      [] <<sec, k>> = <<"appearance", "theme">> ->
            v \in {PyStr(<<"Light">>), PyStr(<<"Dark">>)}
      [] <<sec, k>> = <<"behavior", "auto_save_interval">> ->
            v.ty = "int" /\ v.n \in 60..3600
      [] <<sec, k>> = <<"behavior", "default_playback_speed">> ->
            v.ty = "float" /\ v.n \in 5..20
      [] sec = "paths" -> v.ty = "str"
      [] OTHER -> TRUE

Validated(r) ==
    r.code = "OK" =>
        \A sec \in DOMAIN DefaultSettings :
            \A k \in DOMAIN r.settings[sec] : InDomain(sec, k, r.settings[sec][k])

C14_ValidatedAfterLoad ==
    \A io \in BOOLEAN :
        /\ Validated(SettingsManager_load_settings(TheManager, io))
        /\ \A imported \in ImportFiles :
              Validated(SettingsManager_import_settings(TheManager, imported, io))

(* C15: the (section, key) pairs of the settings are the pairs of the
   defaults.  set_setting takes any section and key, the dialog saves
   three paths keys the defaults do not have, and _merge_settings keeps
   what the file adds, so this is violated. *)

Pairs(obj) == UNION {{<<sec, k>> : k \in DOMAIN obj[sec]} : sec \in DOMAIN obj}

C15_FixedKeySchema == Pairs(settings) = Pairs(DefaultSettings)

(* C16: after reset_settings every setting has the default value the
   SettingsManager was constructed with.  reset_settings copies
   default_settings, which set_setting changes through a shared section,
   so this is violated. *)

C16_ResetGivesConstructedDefaults ==
    \A io \in BOOLEAN :
        LET r == SettingsManager_reset_settings(TheManager, io)
        IN r.code = "OK" => r.settings = DefaultSettings

-----------------------------------------------------------------------------
(* C17: a public operation of SettingsManager that fails raises
   SanctifyError and nothing else.  get_setting evaluates
   default_settings.get(section, {}).get(key) in its KeyError handler,
   where a TypeError is not caught, so this is violated. *)

Raises(r) ==
    IF r.code = "OK" THEN "nothing"
    ELSE IF r.code = "TypeError" THEN "TypeError" ELSE "SanctifyError"

C17_OnlySanctifyError ==
    /\ \A section \in GetSettingArgs, key \in GetSettingArgs,
          default \in {PyNone, PyStr(<<"x">>)} :
          Raises(SettingsManager_get_setting(TheManager, section, key, default))
              \in {"nothing", "SanctifyError"}
    /\ \A io \in BOOLEAN :
          /\ Raises(SettingsManager_load_settings(TheManager, io))
                 \in {"nothing", "SanctifyError"}
          /\ Raises(SettingsManager_reset_settings(TheManager, io))
                 \in {"nothing", "SanctifyError"}
          /\ \A a \in SetSettingArgs :
                Raises(SettingsManager_set_setting(TheManager, a[1], a[2], a[3], io))
                    \in {"nothing", "SanctifyError"}
          /\ \A imported \in ImportFiles :
                Raises(SettingsManager_import_settings(TheManager, imported, io))
                    \in {"nothing", "SanctifyError"}

-----------------------------------------------------------------------------
(* C18: with two processes on one songs file, the file holds the list of
   the process whose save came last; and when both have loaded the same
   file and each adds a song, the second add succeeding after the first,
   the file is the list of the second and does not hold the song of the
   first. *)

C18_LastWriterWins ==
    /\ lastSaver = 1 => songFile = SongsDump(songs)
    /\ lastSaver = 2 => songFile = SongsDump(otherSongs)
    /\ (songs = otherSongs /\ songFile = SongsDump(songs)) =>
          \A first \in SongInputs, second \in SongInputs, now \in Times :
             LET r1 == SongModel_add_song(songs, songFile, first, now, diskOk)
                 r2 == SongModel_add_song(otherSongs, r1.file, second, now, diskOk)
             IN (/\ r1.code = "OK"
                 /\ r2.code = "OK"
                 /\ Lower(first.title.s) # Lower(second.title.s))
                   => /\ r2.file = SongsDump(r2.list)
                      /\ ~SongTitleTaken(SongModel_load_songs(r2.file),
                                         first.title.s)

\* each process has added a song of its own; the file holds the second one
C18_Witness ==
    /\ focus = "song models"
    /\ lastSaver = 2
    /\ Len(songs) = 1
    /\ Len(otherSongs) = 1
    /\ Lower(songs[1].title.s) # Lower(otherSongs[1].title.s)
    /\ songFile = SongsDump(otherSongs)

-----------------------------------------------------------------------------
(* C19: add_media copies the file before it appends and saves the record:
   a process that stops after the copy leaves in the media directory a
   file that no record of the metadata file references; an add_media that
   returns leaves no such file behind. *)

Orphans(file, disk) ==
    {path \in disk : \A i \in 1..Len(file) : MediaParse(file)[i].path.s # path}

C19_StopLeavesOrphan ==
    \A a \in MediaInputs, now \in Times :
        LET c == MediaModel_add_media_copied(media, mediaFile, mediaDisk, a,
                                             Sources, nextUuid, diskOk)
            r == MediaModel_add_media(media, mediaFile, mediaDisk, a, Sources,
                                      nextUuid, now, diskOk)
        IN /\ c.code = "COPIED" =>
                /\ c.file = mediaFile
                /\ Orphans(c.file, c.disk) \ Orphans(mediaFile, mediaDisk) # {}
           /\ r.code = "OK" =>
                /\ c.code = "COPIED"
                /\ c.disk = r.disk
                /\ Orphans(r.file, r.disk) = Orphans(mediaFile, mediaDisk)

\* the first add_media was stopped after its copy
C19_Witness ==
    /\ focus = "media"
    /\ nextUuid = 2
    /\ media = <<>>
    /\ mediaFile = MediaDump(<<>>)
    /\ Cardinality(Orphans(mediaFile, mediaDisk)) = 1

-----------------------------------------------------------------------------
(* C20: from set_blank until the next setText or setMedia the live output
   shows an empty text and no media, whatever zoom_in and zoom_out are
   called.  zoom_in and zoom_out call setText with current_content, which
   set_blank leaves as it was, so this is violated. *)

C20_BlankUntilNewContent ==
    blanked => content_label = <<>> /\ media_player = PyNone

-----------------------------------------------------------------------------
(* C21: in LiveOutput and in PreviewCanvas the zoom level starts at 1.0 and
   is within 0.5..2.0 in every reachable state; zoom_in adds 0.1 and stops
   at 2.0, zoom_out subtracts 0.1 and stops at 0.5, set_blank and
   clear_preview set it to 1.0.  Levels are counted in tenths. *)

ZoomStep(level, in, out, reset) ==
    /\ in => level' = (IF level = 20 THEN 20 ELSE level + 1)
    /\ out => level' = (IF level = 5 THEN 5 ELSE level - 1)
    /\ reset => level' = 10

C21_ZoomWithinRange ==
    /\ zoom_level = 10 /\ preview_zoom_level = 10
    /\ [](zoom_level \in 5..20 /\ preview_zoom_level \in 5..20)
    /\ [][/\ ZoomStep(zoom_level, zoom_in, zoom_out, set_blank)
          /\ ZoomStep(preview_zoom_level, preview_zoom_in, preview_zoom_out,
                      clear_preview)]_vars

\* LiveOutput has stopped at 2.0 and PreviewCanvas at 0.5
C21_Witness == zoom_level = 20 /\ preview_zoom_level = 5

-----------------------------------------------------------------------------
(* C22: for every extension of MediaModel.SUPPORTED_FORMATS, LiveOutput,
   PreviewCanvas and MediaPlayer classify a file with that extension the
   same way, as image or as video.  PreviewCanvas takes ".mov" for an
   image, MediaPlayer takes ".jpeg" and ".gif" for a video: violated. *)

C22_SameClassification ==
    \A file_path \in PreviewFiles :
       /\ LiveOutput_content_type(file_path) = PreviewCanvas_content_type(file_path)
       /\ MediaPlayer_is_image(file_path) <=>
             LiveOutput_content_type(file_path) = "image"
       /\ preview_player # PyNone /\ preview_player.current_media = PyStr(file_path)
             => (preview_player.is_image <=> preview_type = "image")

-----------------------------------------------------------------------------
(* C23: when a model loads its JSON array, every element that fails
   validation is skipped and every element that passes is loaded, in file
   order, and no invalid element of any JSON type makes the load fail.  An
   element that is not an object ends the load with LOAD_003. *)

C23_InvalidElementsSkipped ==
    /\ \A array \in ArraysOf(SongElements \cup JsonScalars) :
          LET r == SongModel_load_songs_file(array)
              objects == SelectSeq(array, IsObject)
          IN r.code = "OK" /\ r.list = SongModel_load_songs(objects)
    /\ \A array \in ArraysOf(ThemeElements \cup JsonScalars) :
          LET r == ThemeModel_load_themes_file(array)
              objects == SelectSeq(array, IsObject)
          IN r.code = "OK" /\ r.list = ThemeModel_load_themes(objects)
    /\ focus # "stopped"

-----------------------------------------------------------------------------
(* C24: if add_song, update_song, delete_song or duplicate_song raises
   SanctifyError for any reason, a failure to write the songs file
   included, the in-memory song list is what it was before the call.  The
   list is changed before _save_songs is called, so a failed write leaves
   the changed list: violated. *)

C24_FailedCallKeepsList ==
    /\ \A song_data \in SongInputs, now \in Times :
          LET r == SongModel_add_song(songs, songFile, song_data, now, diskOk)
          IN r.code # "OK" => r.list = songs
    /\ \A old_title \in SongTitleArgs, song_data \in SongInputs, now \in Times :
          LET r == SongModel_update_song(songs, songFile, old_title, song_data, now, diskOk)
          IN r.code # "OK" => r.list = songs
    /\ \A title \in SongTitleArgs :
          LET r == SongModel_delete_song(songs, songFile, title, diskOk)
          IN r.code # "OK" => r.list = songs
    /\ \A title \in SongTitleArgs, now \in Times :
          LET r == SongModel_duplicate_song(songs, songFile, title, now, diskOk)
          IN r.code # "OK" => r.list = songs

-----------------------------------------------------------------------------
(* C25: an update_media that raises SanctifyError has changed neither the
   media list nor the place of any media file; one that succeeds with
   another category leaves the file at the path of the new category, named
   by the record, and no file at the old path.  The file is renamed before
   the record is validated and saved, so a call that raises UPDATE_003 or
   SAVE_001 has moved the file: violated. *)

C25_UpdateMediaAllOrNothing ==
    \A media_id \in UuidArgs, media_data \in MediaUpdateInputs, now \in Times :
       LET r == MediaModel_update_media(media, mediaFile, mediaDisk, media_id,
                                        media_data, mediaDirAbs, now, diskOk)
           k == GetById(media, media_id)
           last == r.list[Len(r.list)]
       IN /\ r.code # "OK" => r.list = media /\ r.disk = mediaDisk
          /\ r.code = "OK" /\ last.category # media[k].category
                => /\ last.path.s \in r.disk
                   /\ last.path.s =
                         PathJoin(last.category.s, media_id.s \o SplitextExt(media[k].path.s))
                   /\ media[k].path.s \notin r.disk

-----------------------------------------------------------------------------
(* C26: an import_settings that raises SanctifyError leaves the settings,
   the settings file and restart_required as they were.  self.settings is
   assigned the merged dict before _validate_settings and _save_settings
   run, so an import that raises in one of them has replaced the settings:
   violated. *)

C26_FailedImportChangesNothing ==
    \A imported \in ImportFiles \cup {NoFile}, io \in BOOLEAN :
       LET r == SettingsManager_import_settings(TheManager, imported, io)
       IN r.code # "OK" => /\ r.settings = settings
                           /\ r.file = settingsFile
                           /\ r.restart_required = restart_required

-----------------------------------------------------------------------------
(* C27: in a state reached by set_setting calls, export_settings(p)
   followed by import_settings(p) leaves every setting with the value it
   had before the export.  set_setting stores a value without validating
   it and import_settings validates: a language outside the allowed list
   comes back as the default.  Violated. *)

C27_ExportImportRoundTrip ==
    LET e == SettingsManager_export_settings(TheManager, exported, TRUE)
        r == SettingsManager_import_settings(TheManager, e.file, TRUE)
    IN r.code = "OK" /\ r.settings = settings

-----------------------------------------------------------------------------
(* C28: in the Songs tab, for any song list and any search query or tag
   filter, an Up or Down key press moves the selection to a row of the
   displayed (filtered) list, the previous or the next displayed row, and
   never selects a row outside the list.  handle_list_keypress looks the
   current row up among the indices of the unfiltered list and passes such
   an index to setCurrentRow: violated. *)

C28_KeypressStaysInList ==
    \A key \in {"Up", "Down"} :
       LET next_row == SongsTab_handle_list_keypress(tabRow, search_results, key)
       IN next_row # 0 =>
             /\ next_row \in 1..Len(search_results)
             /\ next_row = (IF key = "Up" THEN tabRow - 1 ELSE tabRow + 1)


-----------------------------------------------------------------------------
(* C29: the ThemeModel of models/theme_model.py and the ThemeModel of
   ui/themes_ui.py accept the same records: every theme of themes.json,
   written there by a successful create or update of one of the two, is
   kept when either of them loads the file. *)

C29_BothModelsKeepTheFile ==
    /\ Len(ThemeModel_load_themes(themeFile)) = Len(themeFile)
    /\ Len(UiThemeModel_load_themes(themeFile)) = Len(themeFile)

-----------------------------------------------------------------------------
(* C30: validate_paths, called when every configured path is a string, does
   not raise and returns a map that gives a boolean for each key of the
   paths section. *)

C30_ValidatePathsReturnsMap ==
    ( /\ "paths" \in DOMAIN settings
      /\ IsDict(settings.paths)
      /\ \A key \in DOMAIN settings.paths : settings.paths[key].ty = "str" )
    => \A readable \in SUBSET {"media", "media_folder"} :
          LET r == SettingsManager_validate_paths(TheManager, readable)
          IN /\ r.code = "OK"
             /\ DOMAIN r.results = DOMAIN settings.paths
             /\ \A key \in DOMAIN r.results : r.results[key] \in BOOLEAN

====
